---- MODULE Spec2Model ----
(***************************************************************************)
(* Model of the duplicate / variant detection engine of BookPilot.         *)
(*                                                                         *)
(* Strings are sequences of one-character strings.  The regular            *)
(* expressions of the title normalizer are modelled by matchers that give, *)
(* for a start position, the last position of the match (0: no match), and *)
(* re.sub is modelled by a left-to-right scan over those matchers.         *)
(***************************************************************************)
EXTENDS Integers, Sequences, FiniteSets, TLC

----------------------------------------------------------------------------
(* Characters and character classes (Python str / re semantics)            *)

UpperS == <<"A","B","C","D","E","F","G","H","I","J","K","L","M",
            "N","O","P","Q","R","S","T","U","V","W","X","Y","Z">>

LowerS == <<"a","b","c","d","e","f","g","h","i","j","k","l","m",
            "n","o","p","q","r","s","t","u","v","w","x","y","z">>

Digits == {"0","1","2","3","4","5","6","7","8","9"}

IsUpper(c) == \E i \in 1..26 : UpperS[i] = c

IsLetter(c) == \E i \in 1..26 : UpperS[i] = c \/ LowerS[i] = c

\* str.lower() on one character
LowerChar(c) == IF IsUpper(c) THEN LowerS[CHOOSE i \in 1..26 : UpperS[i] = c] ELSE c

\* str.lower()
Lower(s) == [i \in 1..Len(s) |-> LowerChar(s[i])]

\* \s
IsSpace(c) == c = " "

\* \d
IsDigit(c) == c \in Digits

\* the characters outside ASCII are written by name.  ScriptChars: one
\* codepoint of each range of major_non_english_pattern (the Hebrew range is
\* met by a letter and by a vowel point)
ScriptChars ==
    {"CJK", "HIRAGANA", "KATAKANA", "CYRILLIC", "ARABIC", "HEBREW_LETTER", "HEBREW_POINT"}

\* accented lower-case letters of accented_chars_pattern
AccentedChars == {"E_ACUTE", "O_ACUTE", "I_ACUTE"}

\* the letters outside ASCII: str.isalpha() holds of them and \w matches them
UnicodeLetters == AccentedChars \cup {"ESZETT"} \cup (ScriptChars \ {"HEBREW_POINT"})

\* str.isalpha() on one character
IsAlpha(c) == IsLetter(c) \/ c \in UnicodeLetters

\* str.isupper() and str.islower() on one character
IsUpperCase(c) == IsUpper(c)

IsLowerCase(c) == (IsLetter(c) /\ ~IsUpper(c)) \/ c \in AccentedChars \cup {"ESZETT"}

\* \w
IsWord(c) == IsLetter(c) \/ IsDigit(c) \/ c = "_" \/ c \in UnicodeLetters

IsWordAt(s, i) == i >= 1 /\ i <= Len(s) /\ IsWord(s[i])

\* \b between positions i-1 and i
WordBoundary(s, i) == IsWordAt(s, i - 1) # IsWordAt(s, i)

\* a literal (given in lower case) at position i, under re.IGNORECASE
HasAt(s, i, lit) ==
    /\ i >= 1
    /\ i + Len(lit) - 1 <= Len(s)
    /\ \A k \in 1..Len(lit) : LowerChar(s[i + k - 1]) = lit[k]

\* greedy \s* from position i: the first position that is not a space
SkipSpaces(s, i) ==
    CHOOSE j \in i..(Len(s) + 1) :
        /\ \A k \in i..(j - 1) : IsSpace(s[k])
        /\ (j <= Len(s) => ~IsSpace(s[j]))

\* greedy \d* from position i: the first position that is not a digit
SkipDigits(s, i) ==
    CHOOSE j \in i..(Len(s) + 1) :
        /\ \A k \in i..(j - 1) : IsDigit(s[k])
        /\ (j <= Len(s) => ~IsDigit(s[j]))

\* the end of the run of \w characters from position i
SkipWord(s, i) ==
    CHOOSE j \in i..(Len(s) + 1) :
        /\ \A k \in i..(j - 1) : IsWord(s[k])
        /\ (j <= Len(s) => ~IsWord(s[j]))

\* position of the first occurrence of character c at or after i (0: none)
FirstAt(s, i, c) ==
    IF \E k \in i..Len(s) : s[k] = c
    THEN CHOOSE k \in i..Len(s) : s[k] = c /\ \A m \in i..(k - 1) : s[m] # c
    ELSE 0

\* re.sub(pattern, repl, s): ends[i] is the last position of the match of the
\* pattern that starts at i, or 0; matches are taken leftmost, non-overlapping
RECURSIVE SubFrom(_, _, _, _)
SubFrom(s, ends, repl, i) ==
    IF i > Len(s) THEN <<>>
    ELSE IF ends[i] > 0 THEN repl \o SubFrom(s, ends, repl, ends[i] + 1)
    ELSE <<s[i]>> \o SubFrom(s, ends, repl, i + 1)

ReSub(s, ends, repl) == SubFrom(s, ends, repl, 1)

\* str.strip()
Strip(s) ==
    IF \A i \in 1..Len(s) : IsSpace(s[i]) THEN <<>>
    ELSE LET a == CHOOSE i \in 1..Len(s) : ~IsSpace(s[i]) /\ \A k \in 1..(i - 1) : IsSpace(s[k])
             b == CHOOSE i \in 1..Len(s) : ~IsSpace(s[i]) /\ \A k \in (i + 1)..Len(s) : IsSpace(s[k])
         IN  SubSeq(s, a, b)

\* ' '.join(s.split()): runs of white space become one space, the ends are trimmed
RECURSIVE Collapse(_, _)
Collapse(s, i) ==
    IF i > Len(s) THEN <<>>
    ELSE IF IsSpace(s[i])
         THEN IF SkipSpaces(s, i) > Len(s) THEN <<>>
              ELSE <<" ">> \o Collapse(s, SkipSpaces(s, i))
         ELSE <<s[i]>> \o Collapse(s, i + 1)

JoinSplit(s) == Collapse(s, SkipSpaces(s, 1))

----------------------------------------------------------------------------
(* The patterns of normalize_title_advanced and extract_base_title         *)

\* series|book\s+\d+|#\d+ at position p
SeriesKw(s, p) ==
    \/ HasAt(s, p, <<"s","e","r","i","e","s">>)
    \/ /\ HasAt(s, p, <<"b","o","o","k">>)
       /\ SkipSpaces(s, p + 4) > p + 4
       /\ SkipDigits(s, SkipSpaces(s, p + 4)) > SkipSpaces(s, p + 4)
    \/ /\ HasAt(s, p, <<"#">>)
       /\ SkipDigits(s, p + 1) > p + 1

\* edition|version|translation|ed\. at position p
EditionKw(s, p) ==
    \/ HasAt(s, p, <<"e","d","i","t","i","o","n">>)
    \/ HasAt(s, p, <<"v","e","r","s","i","o","n">>)
    \/ HasAt(s, p, <<"t","r","a","n","s","l","a","t","i","o","n">>)
    \/ HasAt(s, p, <<"e","d",".">>)

\* \s*\([^)]*(?:KW)[^)]*\) and its bracket form: white space, the opening
\* character, a span without the closing character that holds the keyword
EnclosedEnd(s, i, open, close, kw) ==
    LET j == SkipSpaces(s, i)
        k == IF j <= Len(s) THEN FirstAt(s, j + 1, close) ELSE 0
    IN  IF j <= Len(s) /\ s[j] = open /\ k > 0 /\ (\E p \in (j + 1)..(k - 1) :
                                                            IF kw = "series" THEN SeriesKw(s, p)
                                                            ELSE EditionKw(s, p))
        THEN k ELSE 0

\* \b(?:edition|ed\.)\b
EdTokenEnd(s, i) ==
    IF ~WordBoundary(s, i) THEN 0
    ELSE IF HasAt(s, i, <<"e","d","i","t","i","o","n">>) /\ WordBoundary(s, i + 7) THEN i + 6
    ELSE IF HasAt(s, i, <<"e","d",".">>) /\ WordBoundary(s, i + 3) THEN i + 2
    ELSE 0

\* i{1,3}|iv|v{1,3}|vi{0,3}
RomanNumerals ==
    { <<"i">>, <<"i","i">>, <<"i","i","i">>, <<"i","v">>,
      <<"v">>, <<"v","v">>, <<"v","v","v">>,
      <<"v","i">>, <<"v","i","i">>, <<"v","i","i","i">> }

\* (?:i{1,3}|iv|v{1,3}|vi{0,3}|[0-9]+)\b at position p: the run of word
\* characters from p is a numeral; gives its last position
NumeralEnd(s, p, roman) ==
    LET e == SkipWord(s, p)
        w == SubSeq(s, p, e - 1)
    IN  IF e > p /\ ( (\A k \in p..(e - 1) : IsDigit(s[k]))
                      \/ (roman /\ Lower(w) \in RomanNumerals) )
        THEN e - 1 ELSE 0

\* \b(?:volume|vol\.?)\s*(?:i{1,3}|iv|v{1,3}|vi{0,3}|[0-9]+)\b
VolumeAnyEnd(s, i) ==
    LET vol  == <<"v","o","l">>
        volD == <<"v","o","l",".">>
        volU == <<"v","o","l","u","m","e">>
        eU == IF HasAt(s, i, volU) THEN NumeralEnd(s, SkipSpaces(s, i + 6), TRUE) ELSE 0
        eD == IF HasAt(s, i, volD) THEN NumeralEnd(s, SkipSpaces(s, i + 4), TRUE) ELSE 0
        eV == IF HasAt(s, i, vol)  THEN NumeralEnd(s, SkipSpaces(s, i + 3), TRUE) ELSE 0
    IN  IF ~WordBoundary(s, i) THEN 0
        ELSE IF eU > 0 THEN eU
        ELSE IF eD > 0 THEN eD
        ELSE eV

\* \bvolume\s+\d+\b
VolumeNumEnd(s, i) ==
    IF WordBoundary(s, i) /\ HasAt(s, i, <<"v","o","l","u","m","e">>)
       /\ SkipSpaces(s, i + 6) > i + 6
    THEN NumeralEnd(s, SkipSpaces(s, i + 6), FALSE) ELSE 0

\* \bvol\.?\s*\d+\b
VolNumEnd(s, i) ==
    LET eD == IF HasAt(s, i, <<"v","o","l",".">>)
              THEN NumeralEnd(s, SkipSpaces(s, i + 4), FALSE) ELSE 0
        eV == IF HasAt(s, i, <<"v","o","l">>)
              THEN NumeralEnd(s, SkipSpaces(s, i + 3), FALSE) ELSE 0
    IN  IF ~WordBoundary(s, i) THEN 0
        ELSE IF eD > 0 THEN eD ELSE eV

\* \s*\[\d+/\d+\]\s*
SplitMarkerEnd(s, i) ==
    LET j  == SkipSpaces(s, i)
        d1 == SkipDigits(s, j + 1)
        d2 == SkipDigits(s, d1 + 1)
    IN  IF /\ j <= Len(s) /\ s[j] = "["
           /\ d1 > j + 1 /\ d1 <= Len(s) /\ s[d1] = "/"
           /\ d2 > d1 + 1 /\ d2 <= Len(s) /\ s[d2] = "]"
        THEN SkipSpaces(s, d2 + 1) - 1 ELSE 0

\* \s*\([^)]+\)\s*$ and its bracket form: a trailing enclosed span
TrailingEnd(s, i, open, close) ==
    LET j == SkipSpaces(s, i)
        k == IF j <= Len(s) THEN FirstAt(s, j + 1, close) ELSE 0
    IN  IF j <= Len(s) /\ s[j] = open /\ k > j + 1 /\ SkipSpaces(s, k + 1) > Len(s)
        THEN Len(s) ELSE 0

\* ^(the|a|an)\s+ : the number of leading characters the match removes
ArticleEnd(s) ==
    LET after(lit) == IF HasAt(s, 1, lit) /\ SkipSpaces(s, Len(lit) + 1) > Len(lit) + 1
                      THEN SkipSpaces(s, Len(lit) + 1) - 1 ELSE 0
    IN  IF after(<<"t","h","e">>) > 0 THEN after(<<"t","h","e">>)
        ELSE IF after(<<"a">>) > 0 THEN after(<<"a">>)
        ELSE after(<<"a","n">>)

\* the grave accent character (U+0060), which a TLA+ string cannot hold
Backtick == "BACKTICK"

\* s without the characters of the set drop
RECURSIVE Without(_, _, _)
Without(s, drop, i) ==
    IF i > Len(s) THEN <<>>
    ELSE (IF s[i] \in drop THEN <<>> ELSE <<s[i]>>) \o Without(s, drop, i + 1)

\* re.sub of the apostrophe class (apostrophe and grave accent) by ''
DropApostrophes(s) == Without(s, {"'", Backtick}, 1)

SubSeriesParen(s) ==
    ReSub(s, [i \in 1..Len(s) |-> EnclosedEnd(s, i, "(", ")", "series")], <<>>)

SubEditionParen(s) ==
    ReSub(s, [i \in 1..Len(s) |-> EnclosedEnd(s, i, "(", ")", "edition")], <<>>)

SubEditionBracket(s) ==
    ReSub(s, [i \in 1..Len(s) |-> EnclosedEnd(s, i, "[", "]", "edition")], <<>>)

SubEdToken(s) == ReSub(s, [i \in 1..Len(s) |-> EdTokenEnd(s, i)], <<>>)

SubVolume(s) ==
    LET s1 == ReSub(s, [i \in 1..Len(s) |-> VolumeAnyEnd(s, i)], <<>>)
        s2 == ReSub(s1, [i \in 1..Len(s1) |-> VolumeNumEnd(s1, i)], <<>>)
    IN  ReSub(s2, [i \in 1..Len(s2) |-> VolNumEnd(s2, i)], <<>>)

SubSplitMarker(s) == ReSub(s, [i \in 1..Len(s) |-> SplitMarkerEnd(s, i)], <<" ">>)

SubArticle(s) == SubSeq(s, ArticleEnd(s) + 1, Len(s))

SubTrailing(s, open, close) ==
    ReSub(s, [i \in 1..Len(s) |-> TrailingEnd(s, i, open, close)], <<>>)

normalize_title_advanced(title) ==
    IF title = <<>> THEN <<>>
    ELSE Lower(JoinSplit(DropApostrophes(SubArticle(SubSplitMarker(SubVolume(
             SubEdToken(SubEditionBracket(SubEditionParen(SubSeriesParen(title))))))))))

extract_base_title(title) ==
    IF title = <<>> THEN <<>>
    ELSE Strip(DropApostrophes(SubTrailing(SubEdToken(SubVolume(
             SubSeriesParen(SubTrailing(title, "(", ")")))), "[", "]")))

----------------------------------------------------------------------------
(* Similarity scorer                                                       *)

Min2(a, b) == IF a <= b THEN a ELSE b

\* variant of Min3: the third operand is not looked at
Min3_nothird(a, b, c) == Min2(a, b)

Min3(a, b, c) == Min2(a, Min2(b, c))

Max2(a, b) == IF a >= b THEN a ELSE b

\* variant of LevRow: a substitution is charged by comparing c1 with the
\* character before the one in hand
RECURSIVE LevRow_shifted(_, _, _, _)
LevRow_shifted(prev, c1, s2, cur) ==
    IF Len(cur) = Len(s2) + 1 THEN cur
    ELSE LET j == Len(cur)
             insertions    == prev[j + 1] + 1
             deletions     == cur[j] + 1
             substitutions == prev[j] + (IF c1 # s2[Max2(j - 1, 1)] THEN 1 ELSE 0)
         IN  LevRow_shifted(prev, c1, s2, Append(cur, Min3(insertions, deletions, substitutions)))

\* the inner loop of levenshtein_distance: extends current_row (cur) by one
\* cell per character of s2, from previous_row (prev) and the character c1
RECURSIVE LevRow(_, _, _, _)
LevRow(prev, c1, s2, cur) ==
    IF Len(cur) = Len(s2) + 1 THEN cur
    ELSE LET j == Len(cur)
             insertions    == prev[j + 1] + 1
             deletions     == cur[j] + 1
             substitutions == prev[j] + (IF c1 # s2[j] THEN 1 ELSE 0)
         IN  LevRow(prev, c1, s2, Append(cur, Min3(insertions, deletions, substitutions)))

\* the outer loop of levenshtein_distance over the characters of s1 (a row is
\* never empty: the test on its length only makes each row be computed in turn)
RECURSIVE LevRows(_, _, _, _)
LevRows(s1, s2, i, previous_row) ==
    IF i > Len(s1) \/ Len(previous_row) = 0 THEN previous_row
    ELSE LevRows(s1, s2, i + 1, LevRow(previous_row, s1[i], s2, <<i>>))

\* levenshtein_distance once len(s1) >= len(s2) holds
LevDP(s1, s2) ==
    IF Len(s2) = 0 THEN Len(s1)
    ELSE LevRows(s1, s2, 1, [j \in 1..(Len(s2) + 1) |-> j - 1])[Len(s2) + 1]

levenshtein_distance(s1, s2) ==
    IF Len(s1) < Len(s2) THEN LevDP(s2, s1) ELSE LevDP(s1, s2)

RECURSIVE GCD(_, _)
GCD(a, b) == IF b = 0 THEN a ELSE GCD(b, a % b)

\* a float in [0, 1] with a small denominator, kept as the fraction <<n, d>>
\* in lowest terms (distinct fractions of this size are distinct floats)
Frac(n, d) == <<n \div GCD(n, d), d \div GCD(n, d)>>

FracGE(f, g) == f[1] * g[2] >= g[1] * f[2]

FracMax(f, g) == IF FracGE(f, g) THEN f ELSE g

\* variant of similarity_score: only the test on max_len guards the division
similarity_score_noguard(s1, s2) ==
    LET max_len == Max2(Len(s1), Len(s2))
    IN  IF max_len = 0 THEN Frac(1, 1)
        ELSE Frac(max_len - levenshtein_distance(s1, s2), max_len)

similarity_score(s1, s2) ==
    IF s1 = <<>> \/ s2 = <<>> THEN Frac(0, 1)
    ELSE LET max_len == Max2(Len(s1), Len(s2))
         IN  Frac(max_len - levenshtein_distance(s1, s2), max_len)

\* similarity_threshold = 0.85
similarity_threshold == Frac(85, 100)

normalize_isbn(isbn) ==
    IF isbn = <<>> THEN <<>>
    ELSE Strip(Without(isbn, {"-", " "}, 1))

----------------------------------------------------------------------------
(* Records handed to the Duplicate Grouper.  A record carries the columns  *)
(* the grouper and the keep-selection read; a column that the code only    *)
(* tests for truth is a BOOLEAN.  Ids are positive, so `r.id if r.id else  *)
(* id(r)` is r.id.                                                         *)

Fixtures ==
  <<
    [id |-> 1,
     title |-> <<"T","h","e"," ","R","u","b","i","e","s">>,
     isbn |-> <<"3","4">>,
     description |-> TRUE, open_library_key |-> TRUE, publication_date |-> FALSE,
     catalog_book_id |-> TRUE, reason |-> TRUE, duplicate |-> FALSE],
    [id |-> 2,
     title |-> <<"R","u","b","i","e","s">>,
     isbn |-> <<"1","-","2">>,
     description |-> TRUE, open_library_key |-> TRUE, publication_date |-> FALSE,
     catalog_book_id |-> TRUE, reason |-> TRUE, duplicate |-> FALSE],
    [id |-> 3,
     title |-> <<"T","h","e"," ","R","u","b","i","e","s"," ","(","R","e","d",")">>,
     isbn |-> <<>>,
     description |-> TRUE, open_library_key |-> FALSE, publication_date |-> FALSE,
     catalog_book_id |-> FALSE, reason |-> TRUE, duplicate |-> FALSE],
    [id |-> 4,
     title |-> <<"R","u","b","i","e","s","t">>,
     isbn |-> <<>>,
     description |-> TRUE, open_library_key |-> FALSE, publication_date |-> TRUE,
     catalog_book_id |-> TRUE, reason |-> FALSE, duplicate |-> FALSE],
    [id |-> 5,
     title |-> <<"R","u","b","y">>,
     isbn |-> <<>>,
     description |-> TRUE, open_library_key |-> FALSE, publication_date |-> FALSE,
     catalog_book_id |-> FALSE, reason |-> FALSE, duplicate |-> FALSE],
    [id |-> 6,
     title |-> <<"R","u","b","y"," ","(","R","e","d"," ","R","i","v","e","r"," ","V","a","l","l","e","y",")">>,
     isbn |-> <<>>,
     description |-> TRUE, open_library_key |-> FALSE, publication_date |-> FALSE,
     catalog_book_id |-> FALSE, reason |-> FALSE, duplicate |-> FALSE],
    [id |-> 7,
     title |-> <<"G","o","n","e"," ","W","i","t","h"," ","T","h","e"," ","W","i","n","d">>,
     isbn |-> <<>>,
     description |-> FALSE, open_library_key |-> TRUE, publication_date |-> FALSE,
     catalog_book_id |-> TRUE, reason |-> FALSE, duplicate |-> FALSE],
    [id |-> 8,
     title |-> <<"G","o","n","e"," ","W","i","t","h"," ","T","h","e"," ","W","i","n","d"," ","a","n","d"," ","t","h","e"," ","M","a","k","i","n","g"," ","o","f"," ","a"," ","S","o","u","t","h","e","r","n"," ","L","e","g","e","n","d">>,
     isbn |-> <<"1","2">>,
     description |-> FALSE, open_library_key |-> FALSE, publication_date |-> FALSE,
     catalog_book_id |-> FALSE, reason |-> FALSE, duplicate |-> FALSE],
    [id |-> 9,
     title |-> <<"R","u">>,
     isbn |-> <<"1"," ","2">>,
     description |-> FALSE, open_library_key |-> FALSE, publication_date |-> TRUE,
     catalog_book_id |-> FALSE, reason |-> TRUE, duplicate |-> FALSE]
  >>


TitlePool == {Fixtures[i].title : i \in 1..Len(Fixtures)}

Range(s) == {s[i] : i \in 1..Len(s)}

Ids(recs) == [k \in 1..Len(recs) |-> recs[k].id]

\* the elements of s at the positions in keep, in order (a list comprehension)
RECURSIVE PickFrom(_, _, _)
PickFrom(s, keep, i) ==
    IF i > Len(s) THEN <<>>
    ELSE (IF i \in keep THEN <<s[i]>> ELSE <<>>) \o PickFrom(s, keep, i + 1)

Pick(s, keep) == PickFrom(s, keep, 1)

\* the bucket key of the ISBN layer
IsbnKey(rec) == IF rec.isbn # <<>> THEN normalize_isbn(rec.isbn) ELSE <<>>

\* max(sim, base_sim) of the fuzzy layer, from the normalized titles and the
\* base titles of rec1 and rec2
MaxSim(title1_norm, title2_norm, base1, base2) ==
    LET title1_base == Lower(base1)
        title2_base == Lower(base2)
        sim      == similarity_score(title1_norm, title2_norm)
        base_sim == IF title1_base # <<>> /\ title2_base # <<>>
                    THEN similarity_score(title1_base, title2_base) ELSE Frac(0, 1)
    IN  FracMax(sim, base_sim)

\* max_sim >= similarity_threshold
FuzzyMatch(title1_norm, title2_norm, base1, base2) ==
    FracGE(MaxSim(title1_norm, title2_norm, base1, base2), similarity_threshold)

\* b in a (Python substring test)
Contains(a, b) == \E i \in 1..(Len(a) - Len(b) + 1) : SubSeq(a, i, i + Len(b) - 1) = b

Abs(x) == IF x < 0 THEN 0 - x ELSE x

\* variant of SubstringLinked: the length difference is not looked at
SubstringLinked_anylen(base1, base2) ==
    \/ base1 = base2
    \/ /\ Contains(base2, base1) \/ Contains(base1, base2)
       /\ Min2(Len(base1), Len(base2)) >= 3

\* the link test of the substring layer on two non-empty base titles
SubstringLinked(base1, base2) ==
    \/ base1 = base2
    \/ /\ Contains(base2, base1) \/ Contains(base1, base2)
       /\ Abs(Len(base1) - Len(base2)) < 30
       /\ Min2(Len(base1), Len(base2)) >= 3

\* the test of the substring layer on the base titles of rec1 and rec2
SubstringMatch(title1_base, title2_base) ==
    LET base1 == Strip(Lower(title1_base))
        base2 == Strip(Lower(title2_base))
    IN  base1 # <<>> /\ base2 # <<>> /\ SubstringLinked(base1, base2)

\* f as an explicit table, so that a value is computed once and then looked up
Tabulated(f) == f @@ <<>>

\* what the title functions give on the titles in use and on the pairs of
\* them, from the tables norm of normalize_title_advanced and base of
\* extract_base_title:
\*   norm       normalize_title_advanced(rec.title)
\*   base_key   base_title.lower().strip() where base_title is not empty
\*   fuzzy      max_sim >= similarity_threshold
\*   substring  the link test of the substring layer
MemoOf(norm, base) ==
    [norm      |-> norm,
     base_key  |-> Tabulated([t \in TitlePool |->
                       IF base[t] # <<>> THEN Strip(Lower(base[t])) ELSE <<>>]),
     fuzzy     |-> Tabulated([p \in TitlePool \X TitlePool |->
                       FuzzyMatch(norm[p[1]], norm[p[2]], base[p[1]], base[p[2]])]),
     substring |-> Tabulated([p \in TitlePool \X TitlePool |->
                       SubstringMatch(base[p[1]], base[p[2]])])]

TitleMemo ==
    MemoOf(Tabulated([t \in TitlePool |-> normalize_title_advanced(t)]),
           Tabulated([t \in TitlePool |-> extract_base_title(t)]))

\* the functions of the titles are pure: the grouper reads their values from
\* title_memo, which holds TitleMemo from the first state on
VARIABLE title_memo

\* the bucket key of the exact layer ('' : the record enters no bucket)
NormKey(rec) == title_memo.norm[rec.title]

\* the bucket key of the base-title layer ('' : the record enters no bucket)
BaseKey(rec) == title_memo.base_key[rec.title]

----------------------------------------------------------------------------
(* find_duplicate_groups / find_catalog_duplicates.  all_groups is the     *)
(* dict in insertion order; a group is [kind, gid, members] for the key    *)
(* "<kind>_<gid>", members being the ids in list order.                    *)

NewGroup(kind, gid, members) == [kind |-> kind, gid |-> gid, members |-> members]

GroupedIds(groups) == UNION {Range(groups[g].members) : g \in 1..Len(groups)}

\* keys of a defaultdict in insertion order (empty keys are never inserted)
RECURSIVE DistinctKeys(_, _, _)
DistinctKeys(ks, i, acc) ==
    IF i > Len(ks) THEN acc
    ELSE DistinctKeys(ks, i + 1,
             IF ks[i] = <<>> \/ ks[i] \in Range(acc) THEN acc ELSE Append(acc, ks[i]))

\* the lists of a defaultdict(list) filled in list order, ks[i] being the
\* key of entries[i]
Buckets(entries, ks) ==
    LET keys == DistinctKeys(ks, 1, <<>>)
    IN  [b \in 1..Len(keys) |->
            Ids(Pick(entries, {i \in 1..Len(entries) : ks[i] = keys[b]}))]

\* variant of NotYetGrouped: the bucket is taken whole
NotYetGrouped_all(recs, groups) == recs

\* new_recs: the members of a bucket that no existing group holds
NotYetGrouped(recs, groups) == Pick(recs, {k \in 1..Len(recs) : recs[k] \notin GroupedIds(groups)})

\* variant of BucketEmitted: a bucket of one remaining record is emitted too
BucketEmitted_one(new_recs) == Len(new_recs) > 0

\* len(new_recs) > 1
BucketEmitted(new_recs) == Len(new_recs) > 1

\* one "for key, recs in <buckets>.items()" loop; st = [groups, gid, processed]
RECURSIVE AddBuckets(_, _, _, _, _)
AddBuckets(st, buckets, b, kind, skipGrouped) ==
    IF b > Len(buckets) THEN st
    ELSE LET recs     == buckets[b]
             new_recs == IF skipGrouped THEN NotYetGrouped(recs, st.groups) ELSE recs
         IN  AddBuckets(
                 IF Len(recs) > 1 /\ BucketEmitted(new_recs)
                 THEN [st EXCEPT !.groups = Append(@, NewGroup(kind, st.gid, new_recs)),
                                 !.gid = @ + 1]
                 ELSE st,
                 buckets, b + 1, kind, skipGrouped)

ExactLayer(entries, st) ==
    AddBuckets(st, Buckets(entries, [i \in 1..Len(entries) |-> NormKey(entries[i])]), 1, "exact", FALSE)

\* variant of BaseLayer: the layer groups nothing
BaseLayer_skipped(entries, st) == st

\* "Group 2: Same base title"
BaseLayer(entries, st) ==
    AddBuckets(st, Buckets(entries, [i \in 1..Len(entries) |-> BaseKey(entries[i])]), 1, "base", TRUE)

IsbnLayer(entries, st) ==
    AddBuckets(st, Buckets(entries, [i \in 1..Len(entries) |-> IsbnKey(entries[i])]), 1, "isbn", TRUE)

\* in_same_group
InSameGroup(groups, id1, id2) ==
    \E g \in 1..Len(groups) : id1 \in Range(groups[g].members) /\ id2 \in Range(groups[g].members)

\* the records after entries[i] that the inner loop appends to the group of
\* rec1; linked is the pairwise test of the layer, tabulated over the titles
LaterHits(entries, st, i, linked) ==
    Pick(entries, {j \in (i + 1)..Len(entries) :
                      /\ entries[j].id \notin st.processed
                      /\ ~InSameGroup(st.groups, entries[i].id, entries[j].id)
                      /\ linked[<<entries[i].title, entries[j].title>>]})

\* Group 4: the fuzzy loop from entries[i] on
RECURSIVE FuzzyLoop(_, _, _)
FuzzyLoop(entries, st, i) ==
    IF i > Len(entries) THEN st
    ELSE IF entries[i].id \in st.processed THEN FuzzyLoop(entries, st, i + 1)
    ELSE LET hits          == Ids(LaterHits(entries, st, i, title_memo.fuzzy))
             similar_group == <<entries[i].id>> \o hits
         IN  FuzzyLoop(entries,
                 IF Len(similar_group) > 1
                 THEN [groups    |-> Append(st.groups, NewGroup("fuzzy", st.gid, similar_group)),
                       gid       |-> st.gid + 1,
                       processed |-> st.processed \cup Range(similar_group)]
                 ELSE st,
                 i + 1)

FuzzyLayer(entries, st) == FuzzyLoop(entries, st, 1)

\* the merge step of the substring layer: the first existing group that
\* overlaps takes the members it does not hold yet; otherwise a new group
MergeOrAdd(st, substring_group) ==
    LET over == {g \in 1..Len(st.groups) :
                    Range(st.groups[g].members) \cap Range(substring_group) # {}}
    IN  IF over # {}
        THEN LET g == CHOOSE x \in over : \A y \in over : x <= y
                 existing == st.groups[g].members
             IN  [st EXCEPT !.groups[g].members =
                     existing \o Pick(substring_group,
                         {k \in 1..Len(substring_group) : substring_group[k] \notin Range(existing)})]
        ELSE [st EXCEPT !.groups = Append(@, NewGroup("substring", st.gid, substring_group)),
                        !.gid = @ + 1]

\* Group 5: one iteration of the outer loop, rec1 = entries[i]
SubstringIter(entries, st, i) ==
    IF entries[i].id \in st.processed \/ BaseKey(entries[i]) = <<>> THEN st
    ELSE LET hits            == Ids(LaterHits(entries, st, i, title_memo.substring))
             substring_group == <<entries[i].id>> \o hits
             st1 == [st EXCEPT !.processed = @ \cup Range(hits)]
         IN  IF Len(substring_group) > 1 THEN MergeOrAdd(st1, substring_group) ELSE st1

\* Group 5: the substring loop from entries[i] on
RECURSIVE SubstringLoop(_, _, _)
SubstringLoop(entries, st, i) ==
    IF i > Len(entries) THEN st
    ELSE SubstringLoop(entries, SubstringIter(entries, st, i), i + 1)

SubstringLayer(entries, st) == SubstringLoop(entries, st, 1)

EmptyRun == [groups |-> <<>>, gid |-> 0, processed |-> {}]

find_catalog_duplicates(catalog_books) ==
    FuzzyLayer(catalog_books, IsbnLayer(catalog_books, BaseLayer(catalog_books,
        ExactLayer(catalog_books, EmptyRun)))).groups

find_duplicate_groups(recommendations) ==
    SubstringLayer(recommendations, FuzzyLayer(recommendations, IsbnLayer(recommendations,
        BaseLayer(recommendations, ExactLayer(recommendations, EmptyRun))))).groups

----------------------------------------------------------------------------
(* Keep-selection: analyze_author_catalog / analyze_author_recommendations *)

\* score_book
score_book(book) ==
    (IF book.isbn # <<>> THEN 10 ELSE 0) + (IF book.description THEN 5 ELSE 0)
    + (IF book.open_library_key THEN 3 ELSE 0) + (IF book.publication_date THEN 1 ELSE 0)

\* score_rec
score_rec(rec) ==
    (IF rec.isbn # <<>> THEN 10 ELSE 0) + (IF ~rec.duplicate THEN 5 ELSE 0)
    + (IF rec.catalog_book_id THEN 3 ELSE 0) + (IF rec.reason THEN 2 ELSE 0)

\* the score of a member when the records of flagged have been marked
\* duplicate: score_book reads no flag, score_rec reads rec.duplicate
Score(id, v, flagged) ==
    IF v = "cat" THEN score_book(Fixtures[id])
    ELSE score_rec([Fixtures[id] EXCEPT !.duplicate = (id \in flagged)])

\* sorted(group, key=score, reverse=True): a stable sort, so that members of
\* equal score stay in list order
RECURSIVE SortedByScore(_, _, _)
SortedByScore(members, v, flagged) ==
    IF members = <<>> THEN <<>>
    ELSE LET best == CHOOSE k \in 1..Len(members) :
                         /\ \A m \in 1..Len(members) :
                               Score(members[m], v, flagged) <= Score(members[k], v, flagged)
                         /\ \A m \in 1..(k - 1) :
                               Score(members[m], v, flagged) < Score(members[k], v, flagged)
         IN  <<members[best]>>
                 \o SortedByScore(Pick(members, (1..Len(members)) \ {best}), v, flagged)

\* the keep / remove decision on one group; flagged is kept with the decision:
\* the records marked duplicate when the group was scored
KeepDecision(group, v, flagged) ==
    LET sorted == SortedByScore(group.members, v, flagged)
    IN  [kind |-> group.kind, gid |-> group.gid, keep |-> Head(sorted),
         remove |-> Tail(sorted), flagged |-> flagged]

\* the loop over the groups: the catalog analysis only reports, the
\* recommendation check sets rec.duplicate on the removed members of a group
\* before it scores the next group
RECURSIVE KeepLoop(_, _, _, _, _)
KeepLoop(groups, v, g, flagged, acc) ==
    IF g > Len(groups) THEN acc
    ELSE IF Len(groups[g].members) < 2 THEN KeepLoop(groups, v, g + 1, flagged, acc)
    ELSE LET d == KeepDecision(groups[g], v, flagged)
         IN  KeepLoop(groups, v, g + 1,
                      IF v = "cat" THEN flagged ELSE flagged \cup Range(d.remove),
                      Append(acc, d))

\* duplicate_details: one decision per group of at least two members
KeepReport(groups, v) == KeepLoop(groups, v, 1, {}, <<>>)

RemoveTagged(rep) == UNION {Range(rep[g].remove) : g \in 1..Len(rep)}

\* the entries left once every remove-tagged member is deleted / flagged
Survivors(entries, rep) ==
    Pick(entries, {i \in 1..Len(entries) : entries[i].id \notin RemoveTagged(rep)})

----------------------------------------------------------------------------
(* Language classifier: detect_non_english_title                           *)

\* non_english_languages
non_english_languages ==
    {<<"f", "r", "e", "n", "c", "h">>, <<"r", "u", "s", "s", "i", "a", "n">>,
     <<"s", "p", "a", "n", "i", "s", "h">>, <<"g", "e", "r", "m", "a", "n">>,
     <<"i", "t", "a", "l", "i", "a", "n">>, <<"p", "o", "r", "t", "u", "g", "u", "e", "s", "e">>,
     <<"c", "h", "i", "n", "e", "s", "e">>, <<"j", "a", "p", "a", "n", "e", "s", "e">>,
     <<"k", "o", "r", "e", "a", "n">>, <<"a", "r", "a", "b", "i", "c">>,
     <<"h", "e", "b", "r", "e", "w">>, <<"p", "o", "l", "i", "s", "h">>,
     <<"d", "u", "t", "c", "h">>, <<"s", "w", "e", "d", "i", "s", "h">>,
     <<"n", "o", "r", "w", "e", "g", "i", "a", "n">>, <<"d", "a", "n", "i", "s", "h">>,
     <<"f", "i", "n", "n", "i", "s", "h">>, <<"g", "r", "e", "e", "k">>,
     <<"t", "u", "r", "k", "i", "s", "h">>, <<"h", "i", "n", "d", "i">>,
     <<"t", "h", "a", "i">>, <<"v", "i", "e", "t", "n", "a", "m", "e", "s", "e">>,
     <<"i", "n", "d", "o", "n", "e", "s", "i", "a", "n">>, <<"m", "a", "l", "a", "y">>,
     <<"t", "a", "g", "a", "l", "o", "g">>, <<"r", "o", "m", "a", "n", "i", "a", "n">>,
     <<"h", "u", "n", "g", "a", "r", "i", "a", "n">>, <<"c", "z", "e", "c", "h">>,
     <<"s", "l", "o", "v", "a", "k">>, <<"c", "r", "o", "a", "t", "i", "a", "n">>,
     <<"s", "e", "r", "b", "i", "a", "n">>, <<"b", "u", "l", "g", "a", "r", "i", "a", "n">>,
     <<"u", "k", "r", "a", "i", "n", "i", "a", "n">>, <<"p", "e", "r", "s", "i", "a", "n">>,
     <<"u", "r", "d", "u">>, <<"b", "e", "n", "g", "a", "l", "i">>,
     <<"t", "a", "m", "i", "l">>, <<"t", "e", "l", "u", "g", "u">>,
     <<"m", "a", "r", "a", "t", "h", "i">>, <<"g", "u", "j", "a", "r", "a", "t", "i">>,
     <<"k", "a", "n", "n", "a", "d", "a">>, <<"m", "a", "l", "a", "y", "a", "l", "a", "m">>,
     <<"p", "u", "n", "j", "a", "b", "i">>, <<"n", "e", "p", "a", "l", "i">>,
     <<"s", "i", "n", "h", "a", "l", "a">>, <<"m", "y", "a", "n", "m", "a", "r">>,
     <<"k", "h", "m", "e", "r">>, <<"l", "a", "o">>,
     <<"m", "o", "n", "g", "o", "l", "i", "a", "n">>, <<"g", "e", "o", "r", "g", "i", "a", "n">>,
     <<"a", "r", "m", "e", "n", "i", "a", "n">>, <<"a", "z", "e", "r", "b", "a", "i", "j", "a", "n", "i">>,
     <<"k", "a", "z", "a", "k", "h">>, <<"u", "z", "b", "e", "k">>,
     <<"t", "u", "r", "k", "m", "e", "n">>, <<"k", "y", "r", "g", "y", "z">>,
     <<"t", "a", "j", "i", "k">>, <<"a", "f", "r", "i", "k", "a", "a", "n", "s">>,
     <<"s", "w", "a", "h", "i", "l", "i">>, <<"z", "u", "l", "u">>,
     <<"x", "h", "o", "s", "a">>, <<"a", "m", "h", "a", "r", "i", "c">>,
     <<"h", "a", "u", "s", "a">>, <<"y", "o", "r", "u", "b", "a">>,
     <<"i", "g", "b", "o">>, <<"s", "o", "m", "a", "l", "i">>,
     <<"m", "a", "l", "t", "e", "s", "e">>, <<"i", "c", "e", "l", "a", "n", "d", "i", "c">>,
     <<"b", "a", "s", "q", "u", "e">>, <<"c", "a", "t", "a", "l", "a", "n">>,
     <<"g", "a", "l", "i", "c", "i", "a", "n">>, <<"w", "e", "l", "s", "h">>,
     <<"i", "r", "i", "s", "h">>, <<"s", "c", "o", "t", "t", "i", "s", "h">>,
     <<"b", "r", "e", "t", "o", "n">>, <<"c", "o", "r", "n", "i", "s", "h">>,
     <<"m", "a", "n", "x">>, <<"h", "e", "b", "r", "e", "w">>}

\* the lengths of the language names
LanguageLengths(langs) == {Len(l) : l \in langs}

\* one of the language names at position p, under re.IGNORECASE: the length
\* of every name that is there
LanguagesAt(t, p, langs) ==
    {n \in LanguageLengths(langs) : p + n - 1 <= Len(t) /\ Lower(SubSeq(t, p, p + n - 1)) \in langs}

\* a finding of the classifier: the fixed text of the reason and, where the
\* reason quotes it, the matched span
Reason(text, match) == [text |-> text, match |-> match]

\* major_non_english_pattern
ScriptMatch(t) == \E i \in 1..Len(t) : t[i] \in ScriptChars

\* hebrew_chars: [א-ת]
HebrewCharMatch(t) == \E i \in 1..Len(t) : t[i] = "HEBREW_LETTER"

\* hebrew_patterns, under re.IGNORECASE
HebrewPatternMatch(t) ==
    \E i \in 1..Len(t) :
        /\ WordBoundary(t, i)
        /\ \/ HasAt(t, i, <<"s", "h", "e", "l", "o", "s", "h", "a", "h">>) /\ WordBoundary(t, i + 9)
           \/ HasAt(t, i, <<"s", "h", "e", "l">>) /\ WordBoundary(t, i + 4)
           \/ HasAt(t, i, <<"b", "e", "-">>)
           \/ HasAt(t, i, <<"v", "e", "-">>)
           \/ /\ HasAt(t, i, <<"s", "h", "a", "v", "u">>)
              /\ i + 5 <= Len(t) /\ t[i + 5] \in {"HEBREW_POINT", "HEBREW_LETTER"}
              /\ HasAt(t, i + 6, <<"o", "t">>) /\ WordBoundary(t, i + 8)

\* paren_pattern / bracket_pattern from position j: the opening character,
\* a span without the closing character that holds a language name, the
\* closing character; the last position of the match, or 0
LanguageEnclosedEnd(t, j, open, close, langs) ==
    LET k == FirstAt(t, j + 1, close)
    IN  IF /\ t[j] = open
           /\ k > 0
           /\ \E p \in (j + 1)..(k - 1) : \E n \in LanguagesAt(t, p, langs) : p + n - 1 < k
        THEN k ELSE 0

\* edition|version|translation followed by \b, from position q: the last
\* position, or 0
EditionWordEnd(t, q) ==
    IF HasAt(t, q, <<"e", "d", "i", "t", "i", "o", "n">>) /\ WordBoundary(t, q + 7) THEN q + 6
    ELSE IF HasAt(t, q, <<"v", "e", "r", "s", "i", "o", "n">>) /\ WordBoundary(t, q + 7) THEN q + 6
    ELSE IF HasAt(t, q, <<"t", "r", "a", "n", "s", "l", "a", "t", "i", "o", "n">>) /\ WordBoundary(t, q + 11) THEN q + 10
    ELSE 0

\* standalone_pattern from position p: the last position of the match, or 0
\* (the names are tried in turn until the rest of the pattern matches)
LanguageStandaloneEnd(t, p, langs) ==
    LET ok == {n \in LanguagesAt(t, p, langs) :
                  /\ SkipSpaces(t, p + n) > p + n
                  /\ EditionWordEnd(t, SkipSpaces(t, p + n)) > 0}
    IN  IF WordBoundary(t, p) /\ ok # {}
        THEN EditionWordEnd(t, SkipSpaces(t, p + (CHOOSE n \in ok : TRUE)))
        ELSE 0

\* the words of spanish_indicators
SpanishWords ==
    {<<"e", "d", "i", "c", "i", "o", "n">>, <<"e", "d", "i", "c", "i", "O_ACUTE", "n">>, <<"c", "o", "l", "e", "c", "c", "i", "o", "n">>, <<"c", "o", "l", "e", "c", "c", "i", "O_ACUTE", "n">>, <<"e", "s", "t", "u", "c", "h", "e">>, <<"l", "i", "b", "r", "o">>, <<"l", "i", "b", "r", "o", "s">>,
     <<"m", "i", "s", "t", "e", "r", "i", "o">>, <<"p", "r", "i", "n", "c", "i", "p", "e">>, <<"p", "r", "I_ACUTE", "n", "c", "i", "p", "e">>}

\* spanish_indicators from position p: the last position of the match, or 0
SpanishEnd(t, p) ==
    LET ok == {w \in SpanishWords : HasAt(t, p, w) /\ WordBoundary(t, p + Len(w))}
    IN  IF WordBoundary(t, p) /\ ok # {}
        THEN p + Len(CHOOSE w \in ok : \A v \in ok : Len(w) <= Len(v)) - 1
        ELSE 0

\* pattern.search(t): the span of the leftmost match, where ends[i] is the
\* last position of the match that starts at i, or 0; the empty string when
\* there is no match
SearchSpan(t, ends) ==
    IF \A i \in 1..Len(t) : ends[i] = 0 THEN <<>>
    ELSE LET i == CHOOSE a \in 1..Len(t) : ends[a] > 0 /\ \A b \in 1..(a - 1) : ends[b] = 0
         IN  SubSeq(t, i, ends[i])

\* title.split(): the maximal runs of characters that are not white space
RECURSIVE SplitFrom(_, _)
SplitFrom(s, i) ==
    LET a == SkipSpaces(s, i)
    IN  IF a > Len(s) THEN <<>>
        ELSE LET b == CHOOSE j \in a..Len(s) :
                          /\ \A k \in a..j : ~IsSpace(s[k])
                          /\ (j < Len(s) => IsSpace(s[j + 1]))
             IN  <<SubSeq(s, a, b)>> \o SplitFrom(s, b + 1)

Split(s) == SplitFrom(s, 1)

\* known_acronyms
known_acronyms == {<<"x", "m", "l">>, <<"x", "h", "t", "m", "l">>, <<"x", "a", "m", "l">>, <<"x", "p", "a", "t", "h">>, <<"x", "s", "l", "t">>, <<"x", "q", "u", "e", "r", "y">>}

\* ^X[a-z]{2,} under re.IGNORECASE, on a first word that is no known acronym
XPrefixMatch(t) ==
    /\ Len(t) >= 3
    /\ LowerChar(t[1]) = "x" /\ IsLetter(t[2]) /\ IsLetter(t[3])
    /\ Lower(Split(t)[1]) \notin known_acronyms

\* known_patterns
known_patterns ==
    {<<"h", "t", "m", "l">>, <<"x", "m", "l">>, <<"a", "p", "i">>, <<"u", "r", "l">>, <<"p", "d", "f">>, <<"c", "s", "v">>, <<"j", "s", "o", "n">>, <<"i", "p", "h", "o", "n", "e">>, <<"i", "p", "a", "d">>, <<"e", "b", "o", "o", "k">>,
     <<"e", "p", "u", "b">>, <<"d", "j">>, <<"c", "v">>, <<"a", "b", "c">>, <<"u", "k">>, <<"h", "b", "r">>}

\* word.rstrip("'s"): trailing apostrophes and s characters are dropped
RStripPossessive(w) ==
    LET n == CHOOSE j \in 0..Len(w) :
                 /\ \A k \in (j + 1)..Len(w) : w[k] \in {"'", "s"}
                 /\ (j > 0 => w[j] \notin {"'", "s"})
    IN  SubSeq(w, 1, n)

\* a short word of mixed case that is no known pattern
SuspiciousWord(word) ==
    /\ 3 <= Len(word) /\ Len(word) <= 5
    /\ IsUpperCase(word[1])
    /\ \E k \in 2..Len(word) : IsLowerCase(word[k])
    /\ \E k \in 2..Len(word) : IsUpperCase(word[k])
    /\ RStripPossessive(Lower(word)) \notin known_patterns
    /\ Lower(word) \notin known_patterns

\* the first suspicious word of the title, or the empty string
FirstSuspiciousWord(t) ==
    LET words == Split(t)
    IN  IF \A k \in 1..Len(words) : ~SuspiciousWord(words[k]) THEN <<>>
        ELSE words[CHOOSE k \in 1..Len(words) :
                       SuspiciousWord(words[k]) /\ \A m \in 1..(k - 1) : ~SuspiciousWord(words[m])]

\* non_english_articles[0] and non_english_articles[1]: the words before \s+[A-Z]
ArticleWords(n) ==
    IF n = 1
    THEN {<<"l", "e">>, <<"l", "a">>, <<"l", "e", "s">>, <<"u", "n">>, <<"u", "n", "e">>, <<"d", "e", "s">>, <<"d", "u">>, <<"d", "e">>, <<"e", "l">>, <<"l", "o", "s">>, <<"l", "a", "s">>, <<"u", "n", "a">>,
          <<"u", "n", "o">>, <<"d", "e", "r">>, <<"d", "i", "e">>, <<"d", "a", "s">>, <<"e", "i", "n">>, <<"e", "i", "n", "e">>}
    ELSE {<<"v", "a", "n">>, <<"v", "o", "n">>, <<"d", "e">>, <<"d", "e", "l">>, <<"d", "a">>, <<"d", "i">>, <<"d", "u">>, <<"d", "e", "s">>}

\* pattern n of non_english_articles from position p, under re.IGNORECASE:
\* the last position of the match, or 0
ArticleEndAt(t, p, n) ==
    LET ok == {w \in ArticleWords(n) :
                  /\ HasAt(t, p, w)
                  /\ SkipSpaces(t, p + Len(w)) > p + Len(w)
                  /\ SkipSpaces(t, p + Len(w)) <= Len(t)
                  /\ IsLetter(t[SkipSpaces(t, p + Len(w))])}
    IN  IF WordBoundary(t, p) /\ ok # {}
        THEN SkipSpaces(t, p + Len(CHOOSE w \in ok : TRUE))
        ELSE 0

\* len(re.findall(pattern, t)): the matches are taken leftmost, non-overlapping
RECURSIVE CountFrom(_, _, _)
CountFrom(t, ends, i) ==
    IF i > Len(t) THEN 0
    ELSE IF ends[i] > 0 THEN 1 + CountFrom(t, ends, ends[i] + 1)
    ELSE CountFrom(t, ends, i + 1)

\* matches > 0 and matches / len(title_words) > 0.3, for one of the patterns
ArticlePatternMatch(t) ==
    /\ Len(Split(t)) > 2
    /\ \E n \in 1..2 :
          LET matches == CountFrom(t, [p \in 1..Len(t) |-> ArticleEndAt(t, p, n)], 1)
          IN  matches > 0 /\ matches * 10 > 3 * Len(Split(t))

\* the rules of detect_non_english_title in the order of the code, each with
\* the reason it gives: rule r matches title t
RuleCount == 12

RuleMatches(r, t, langs) ==
    CASE r = 1  -> ScriptMatch(t)
      [] r = 2  -> HebrewCharMatch(t)
      [] r = 3  -> HebrewPatternMatch(t)
      [] r = 4  -> \E j \in 1..Len(t) : LanguageEnclosedEnd(t, j, "(", ")", langs) > 0
      [] r = 5  -> \E j \in 1..Len(t) : LanguageEnclosedEnd(t, j, "[", "]", langs) > 0
      [] r = 6  -> \E p \in 1..Len(t) : LanguageStandaloneEnd(t, p, langs) > 0
      [] r = 7  -> /\ ~(\E i \in 1..Len(t) : HasAt(t, i, <<"h", "o", "u", "s", "e", " ", "e", "d", "i", "t", "i", "o", "n">>))
                   /\ \E p \in 1..Len(t) : SpanishEnd(t, p) > 0
      [] r = 8  -> \E i \in 1..Len(t) : t[i] \in {"INV_QUESTION", "INV_EXCLAIM"}
      [] r = 9  -> \E i \in 1..Len(t) : t[i] = "ESZETT"
      [] r = 10 -> XPrefixMatch(t)
      [] r = 11 -> FirstSuspiciousWord(t) # <<>>
      [] r = 12 -> ArticlePatternMatch(t)

RuleReason(r, t, langs) ==
    CASE r = 1  -> Reason("Non-English script detected (CJK/Cyrillic/Arabic/Hebrew)", <<>>)
      [] r = 2  -> Reason("Hebrew characters detected", <<>>)
      [] r = 3  -> Reason("Hebrew transliteration pattern detected", <<>>)
      [] r = 4  -> Reason("Language edition in parentheses", SearchSpan(t,
                       [j \in 1..Len(t) |-> LanguageEnclosedEnd(t, j, "(", ")", langs)]))
      [] r = 5  -> Reason("Language edition in brackets", SearchSpan(t,
                       [j \in 1..Len(t) |-> LanguageEnclosedEnd(t, j, "[", "]", langs)]))
      [] r = 6  -> Reason("Standalone language edition", SearchSpan(t,
                       [p \in 1..Len(t) |-> LanguageStandaloneEnd(t, p, langs)]))
      [] r = 7  -> Reason("Spanish text indicator", SearchSpan(t,
                       [p \in 1..Len(t) |-> SpanishEnd(t, p)]))
      [] r = 8  -> Reason("Spanish punctuation", <<>>)
      [] r = 9  -> Reason("German eszett character", <<>>)
      [] r = 10 -> Reason("Suspicious encoding pattern: X prefix", <<>>)
      [] r = 11 -> Reason("Suspicious capitalization pattern", FirstSuspiciousWord(t))
      [] r = 12 -> Reason("Non-English article/preposition pattern detected", <<>>)

\* variant of DetectFrom: every rule is tried and every reason is kept
RECURSIVE DetectFrom_all(_, _, _)
DetectFrom_all(r, t, langs) ==
    IF r > RuleCount THEN <<FALSE, <<>>>>
    ELSE IF RuleMatches(r, t, langs)
         THEN <<TRUE, <<RuleReason(r, t, langs)>> \o DetectFrom_all(r + 1, t, langs)[2]>>
    ELSE DetectFrom_all(r + 1, t, langs)

\* the chain from rule r on: the first rule that matches returns True with its
\* reason alone; the end of the chain returns False with the empty list
RECURSIVE DetectFrom(_, _, _)
DetectFrom(r, t, langs) ==
    IF r > RuleCount THEN <<FALSE, <<>>>>
    ELSE IF RuleMatches(r, t, langs) THEN <<TRUE, <<RuleReason(r, t, langs)>>>>
    ELSE DetectFrom(r + 1, t, langs)

\* detect_non_english_title(title): <<is_non_english, reasons>>
detect_non_english_title(title) ==
    IF title = <<>> THEN <<FALSE, <<>>>>
    ELSE DetectFrom(1, title, non_english_languages)

----------------------------------------------------------------------------
(* Composite volumes: is_composite_volume, extract_books_from_composite,   *)
(* find_composite_standalone_matches.  A catalog book is a record          *)
(* [title, series_name, series_position]; series_position 0 stands for     *)
(* None.  A book is named by its index in catalog_books.  Match scores are *)
(* in tenths: 10, 8, 7 for 1.0, 0.8, 0.7.                                  *)

\* separators, in the order the code tries them
separators_amp == <<<<" ", "/", " ">>, <<"/">>, <<" ", "|", " ">>, <<"|">>, <<"&">>>>

separators == <<<<" ", "/", " ">>, <<"/">>, <<" ", "|", " ">>, <<"|">>>>

\* [-–—]
DashChars == {"-", "EN_DASH", "EM_DASH"}

\* The range patterns are searched, so only the existence of a match counts.
\* A pattern is run as a set of positions: from the positions P where the
\* part read so far may end, the positions where it may end after one more
\* piece.  A position is the index of the next character to read.

\* a literal (given in lower case) under re.IGNORECASE
AfterLit(t, P, lit) == {p + Len(lit) : p \in {q \in P : HasAt(t, q, lit)}}

\* an optional literal: s? or :?
AfterOpt(t, P, lit) == P \cup AfterLit(t, P, lit)

\* \s+ (least = 1) or \s* (least = 0)
AfterSpaces(t, P, least) ==
    {q \in 1..(Len(t) + 1) :
        \E p \in P : p + least <= q /\ \A k \in p..(q - 1) : IsSpace(t[k])}

\* \d+
AfterDigits(t, P) ==
    {q \in 1..(Len(t) + 1) :
        \E p \in P : p < q /\ \A k \in p..(q - 1) : IsDigit(t[k])}

\* [-–—]
AfterDash(t, P) == {p + 1 : p \in {q \in P : q <= Len(t) /\ t[q] \in DashChars}}

\* \d+\s*[-–—]\s*\d+
NumberRange(t, P) ==
    AfterDigits(t, AfterSpaces(t, AfterDash(t, AfterSpaces(t, AfterDigits(t, P), 0)), 0))

\* len(range_patterns)
RangePatternCount == 7

\* where range_patterns[r] may end when searched in t (empty: no match)
RangePatternEnds(r, t) ==
    LET P == 1..(Len(t) + 1)
    IN  CASE r = 1 -> NumberRange(t, AfterSpaces(t, AfterOpt(t, AfterLit(t, P, <<"b", "o", "o", "k">>), <<"s">>), 1))
          [] r = 2 -> NumberRange(t, AfterSpaces(t, AfterOpt(t, AfterLit(t, P, <<"v", "o", "l", "u", "m", "e">>), <<"s">>), 1))
          [] r = 3 -> NumberRange(t, AfterSpaces(t, AfterOpt(t, AfterLit(t, P, <<"p", "a", "r", "t">>), <<"s">>), 1))
          [] r = 4 -> AfterOpt(t, AfterLit(t, AfterSpaces(t, NumberRange(t, P), 1), <<"b", "o", "o", "k">>), <<"s">>)
          [] r = 5 -> NumberRange(t, AfterSpaces(t, AfterLit(t, P, <<"b", "o", "x">>), 1))
          [] r = 6 -> AfterLit(t, AfterSpaces(t, AfterLit(t, P, <<"b", "o", "x", "e", "d">>), 1), <<"s", "e", "t">>)
          [] r = 7 -> NumberRange(t, AfterSpaces(t, AfterOpt(t, AfterLit(t,
                          AfterSpaces(t, AfterOpt(t, AfterSpaces(t, AfterLit(t, P, <<"c", "o", "l", "l", "e", "c", "t", "i", "o", "n">>), 0), <<":">>), 0),
                          <<"b", "o", "o", "k">>), <<"s">>), 1))

\* any(sep in title for sep in separators)
has_separator(title) == \E k \in 1..Len(separators) : Contains(title, separators[k])

\* any(re.search(pattern, title, re.IGNORECASE) for pattern in range_patterns)
has_range(title) == \E r \in 1..RangePatternCount : RangePatternEnds(r, title) # {}

\* the parts between the separator matches; ends[i] is the last position of
\* the separator that starts at i, or 0; start is where the current part began
RECURSIVE SplitAt(_, _, _, _)
SplitAt(s, ends, i, start) ==
    IF i > Len(s) THEN <<SubSeq(s, start, Len(s))>>
    ELSE IF ends[i] > 0
         THEN <<SubSeq(s, start, i - 1)>> \o SplitAt(s, ends, ends[i] + 1, ends[i] + 1)
         ELSE SplitAt(s, ends, i + 1, start)

\* title.split(sep)
SplitOn(s, sep) ==
    SplitAt(s, [i \in 1..Len(s) |->
                   IF i + Len(sep) - 1 <= Len(s) /\ SubSeq(s, i, i + Len(sep) - 1) = sep
                   THEN i + Len(sep) - 1 ELSE 0], 1, 1)

\* re.split(r'[/|]', title)
SplitOnChars(s, chars) ==
    SplitAt(s, [i \in 1..Len(s) |-> IF s[i] \in chars THEN i ELSE 0], 1, 1)

\* [p.strip() for p in parts] filtered by len(p) > 3
LongParts(parts) ==
    LET stripped == [k \in 1..Len(parts) |-> Strip(parts[k])]
    IN  Pick(stripped, {k \in 1..Len(parts) : Len(stripped[k]) > 3})

\* series_position == 1 and the title splits into more than one part
series_mismatch(book) ==
    /\ book.series_position = 1
    /\ has_separator(book.title)
    /\ Len(LongParts(SplitOnChars(book.title, {"/", "|"}))) > 1

is_composite_volume(book) ==
    has_separator(book.title) \/ has_range(book.title) \/ series_mismatch(book)

\* variant of ExtractFrom: the parts of the first separator found are
\* returned however few they are
RECURSIVE ExtractFrom_first(_, _)
ExtractFrom_first(title, k) ==
    IF k > Len(separators) THEN <<>>
    ELSE IF Contains(title, separators[k])
         THEN LongParts(SplitOn(title, separators[k]))
         ELSE ExtractFrom_first(title, k + 1)

\* the loop over the separators from the k-th on, and what follows it
RECURSIVE ExtractFrom(_, _)
ExtractFrom(title, k) ==
    IF k > Len(separators)
    THEN IF RangePatternEnds(1, title) # {} \/ RangePatternEnds(2, title) # {}
            \/ RangePatternEnds(3, title) # {}
         THEN <<>> ELSE <<>>
    ELSE IF Contains(title, separators[k])
            /\ Len(LongParts(SplitOn(title, separators[k]))) > 1
         THEN LongParts(SplitOn(title, separators[k]))
         ELSE ExtractFrom(title, k + 1)

extract_books_from_composite(title) == ExtractFrom(title, 1)

\* the catalog books of an author
CompFixtures ==
    <<[title |-> <<"T", "h", "e", " ", "S", "e", "c", "r", "e", "t", "/", "T", "h", "e", " ", "R", "e", "v", "e", "a", "l", "i", "n", "g">>, series_name |-> <<"A", "m", "i", "s", "h">>, series_position |-> 1],
      [title |-> <<"T", "h", "e", " ", "S", "e", "c", "r", "e", "t">>, series_name |-> <<"A", "m", "i", "s", "h">>, series_position |-> 1],
      [title |-> <<"T", "h", "e", " ", "S", "e", "c", "r", "e", "t", " ", "G", "a", "r", "d", "e", "n">>, series_name |-> <<>>, series_position |-> 0],
      [title |-> <<"T", "h", "e", " ", "R", "e", "v", "e", "a", "l", "i", "n", "g", " ", "(", "U", "n", "a", "b", "r", "i", "d", "g", "e", "d", ")">>, series_name |-> <<"A", "m", "i", "s", "h">>, series_position |-> 2],
      [title |-> <<"t", "h", "e", " ", "s", "e", "c", "r", "e", "t">>, series_name |-> <<>>, series_position |-> 0],
      [title |-> <<"B", "o", "o", "k", "s", " ", "1", "-", "5">>, series_name |-> <<"A", "m", "i", "s", "h">>, series_position |-> 0],
      [title |-> <<"A", "b", "/", "T", "h", "e", " ", "R", "e", "v", "e", "a", "l", "i", "n", "g">>, series_name |-> <<>>, series_position |-> 1],
      [title |-> <<"P", "r", "i", "d", "e", " ", "&", " ", "P", "r", "e", "j", "u", "d", "i", "c", "e">>, series_name |-> <<>>, series_position |-> 0]>>

\* the titles of those books and of their components
CompPool ==
    {CompFixtures[i].title : i \in 1..Len(CompFixtures)}
    \cup UNION {Range(extract_books_from_composite(CompFixtures[i].title)) :
                   i \in 1..Len(CompFixtures)}

CompMemo ==
    [norm |-> Tabulated([t \in CompPool |-> normalize_title_advanced(t)]),
     base |-> Tabulated([t \in CompPool |-> extract_base_title(t)])]

\* normalize_title_advanced and extract_base_title are pure: the matching
\* reads their values from comp_memo, which holds CompMemo from the first
\* state on
VARIABLE comp_memo

\* best_match (0: None) and best_score before any standalone was looked at
NoMatch == [match |-> 0, score |-> 0]

\* variant of BestStandalone: containment replaces whatever was found
RECURSIVE BestStandalone_last(_, _, _, _, _)
BestStandalone_last(component_title, catalog_books, standalone_books, k, best) ==
    IF k > Len(standalone_books) THEN best
    ELSE LET standalone == standalone_books[k]
             title == catalog_books[standalone].title
             cn == comp_memo.norm[component_title]
             sn == comp_memo.norm[title]
             cb == comp_memo.base[component_title]
             sb == comp_memo.base[title]
             afterBase ==
                 IF cb # <<>> /\ sb # <<>> /\ Lower(cb) = Lower(sb) /\ best.score < 8
                 THEN [match |-> standalone, score |-> 8] ELSE best
             afterContain ==
                 IF \/ Contains(Lower(title), Lower(component_title))
                    \/ Contains(Lower(component_title), Lower(title))
                 THEN [match |-> standalone, score |-> 7] ELSE afterBase
         IN  IF cn # <<>> /\ sn # <<>> /\ cn = sn
             THEN [match |-> standalone, score |-> 10]
             ELSE BestStandalone_last(component_title, catalog_books, standalone_books,
                                      k + 1, afterContain)

\* the loop over standalone_books for one component, from the k-th on
RECURSIVE BestStandalone(_, _, _, _, _)
BestStandalone(component_title, catalog_books, standalone_books, k, best) ==
    IF k > Len(standalone_books) THEN best
    ELSE LET standalone == standalone_books[k]
             title == catalog_books[standalone].title
             cn == comp_memo.norm[component_title]
             sn == comp_memo.norm[title]
             cb == comp_memo.base[component_title]
             sb == comp_memo.base[title]
             afterBase ==
                 IF cb # <<>> /\ sb # <<>> /\ Lower(cb) = Lower(sb) /\ best.score < 8
                 THEN [match |-> standalone, score |-> 8] ELSE best
             afterContain ==
                 IF /\ \/ Contains(Lower(title), Lower(component_title))
                       \/ Contains(Lower(component_title), Lower(title))
                    /\ afterBase.score < 7
                 THEN [match |-> standalone, score |-> 7] ELSE afterBase
         IN  IF cn # <<>> /\ sn # <<>> /\ cn = sn
             THEN [match |-> standalone, score |-> 10]
             ELSE BestStandalone(component_title, catalog_books, standalone_books,
                                 k + 1, afterContain)

\* matched_standalones: the loop over component_titles from the c-th on
RECURSIVE MatchedStandalones(_, _, _, _)
MatchedStandalones(component_titles, catalog_books, standalone_books, c) ==
    IF c > Len(component_titles) THEN <<>>
    ELSE LET best == BestStandalone(component_titles[c], catalog_books, standalone_books, 1, NoMatch)
         IN  (IF best.match # 0 /\ best.score >= 7
              THEN <<[standalone |-> best.match,
                      component_title |-> component_titles[c],
                      match_score |-> best.score]>>
              ELSE <<>>)
             \o MatchedStandalones(component_titles, catalog_books, standalone_books, c + 1)

\* the records appended to matches for one composite book
CompositeMatches(catalog_books, standalone_books, composite) ==
    LET book == catalog_books[composite]
        component_titles == extract_books_from_composite(book.title)
        matched == MatchedStandalones(component_titles, catalog_books, standalone_books, 1)
        record(standalones, confidence, reason) ==
            [composite_book |-> composite,
             composite_series_name |-> book.series_name,
             composite_series_position |-> book.series_position,
             standalone_books |-> standalones,
             component_titles |-> component_titles,
             confidence |-> confidence,
             reason |-> reason]
    IN  IF component_titles = <<>>
        THEN IF is_composite_volume(book)
             THEN <<record(<<>>, "low", <<"range or boxed set">>)>> ELSE <<>>
        ELSE IF matched # <<>>
             THEN <<record(matched,
                           IF Len(matched) = Len(component_titles) THEN "high" ELSE "medium",
                           <<"found", Len(matched), Len(component_titles)>>)>>
             ELSE IF is_composite_volume(book)
                  THEN <<record(<<>>, "low", <<"no standalone found">>)>> ELSE <<>>

\* the loop over composite_books from the k-th on
RECURSIVE MatchLoop(_, _, _, _)
MatchLoop(catalog_books, composite_books, standalone_books, k) ==
    IF k > Len(composite_books) THEN <<>>
    ELSE CompositeMatches(catalog_books, standalone_books, composite_books[k])
         \o MatchLoop(catalog_books, composite_books, standalone_books, k + 1)

\* composite_books of find_composite_standalone_matches
CompositeBooks(catalog_books) ==
    Pick([i \in 1..Len(catalog_books) |-> i],
         {i \in 1..Len(catalog_books) : is_composite_volume(catalog_books[i])})

\* standalone_books of find_composite_standalone_matches
StandaloneBooks(catalog_books) ==
    Pick([i \in 1..Len(catalog_books) |-> i],
         {i \in 1..Len(catalog_books) : ~is_composite_volume(catalog_books[i])})

find_composite_standalone_matches(catalog_books) ==
    MatchLoop(catalog_books, CompositeBooks(catalog_books), StandaloneBooks(catalog_books), 1)

----------------------------------------------------------------------------
(* Series consolidation: normalize_series_name, find_series_consolidations *)
(* A book is a record [series_name, series_position], series_position 0    *)
(* standing for None; books without a series name are left out by the      *)
(* query.                                                                  *)

\* \s+series\s*$ (least = 1) and \s*series\s*$ (least = 0) replaced by ''
SubSeriesSuffix(s, least) ==
    LET word == <<"s", "e", "r", "i", "e", "s">>
        e == CHOOSE j \in 0..Len(s) : /\ \A k \in (j + 1)..Len(s) : IsSpace(s[k])
                                      /\ (j >= 1 => ~IsSpace(s[j]))
        w == e - Len(word)
        b == CHOOSE j \in 0..Max2(w, 0) : /\ \A k \in (j + 1)..w : IsSpace(s[k])
                                          /\ (j >= 1 => ~IsSpace(s[j]))
    IN  IF w >= 0 /\ SubSeq(s, w + 1, e) = word /\ w - b >= least
        THEN SubSeq(s, 1, b) ELSE s

normalize_series_name(series_name) ==
    IF series_name = <<>> THEN <<>>
    ELSE LET spaced == JoinSplit(SubSeriesSuffix(SubSeriesSuffix(
                           SubArticle(Strip(Tabulated(Lower(series_name)))), 1), 0))
         IN  Pick(spaced, {i \in 1..Len(spaced) : IsWord(spaced[i]) \/ IsSpace(spaced[i])})

\* the books of the author that are in a series
SeriesFixtures ==
    <<[series_name |-> <<"R", "e", "d", " ", "R", "i", "v", "e", "r", " ", "S", "e", "r", "i", "e", "s">>, series_position |-> 1],
      [series_name |-> <<"R", "e", "d", " ", "R", "i", "v", "e", "r", " ", "s", "e", "r", "i", "e", "s">>, series_position |-> 2],
      [series_name |-> <<"r", "e", "d", " ", "r", "i", "v", "e", "r">>, series_position |-> 2],
      [series_name |-> <<"D", "u", "n", "e">>, series_position |-> 1],
      [series_name |-> <<"A", " ", "D", "u", "n", "e", " ", "S", "e", "r", "i", "e", "s">>, series_position |-> 3],
      [series_name |-> <<"S", "e", "r", "i", "e", "s">>, series_position |-> 1]>>

SeriesNames == {SeriesFixtures[i].series_name : i \in 1..Len(SeriesFixtures)}

SeriesMemo == Tabulated([name \in SeriesNames |-> normalize_series_name(name)])

\* normalize_series_name is pure: the consolidation reads its values from
\* series_memo, which holds SeriesMemo from the first state on
VARIABLE series_memo

\* normalize_series_name(book.series_name) for every book of the list
NormalizedNames(catalog_books) ==
    [i \in 1..Len(catalog_books) |-> series_memo[catalog_books[i].series_name]]

\* the keys of normalized_groups in insertion order, from the k-th book on;
\* names holds the normalized series name of every book
RECURSIVE GroupKeys(_, _, _)
GroupKeys(names, k, seen) ==
    IF k > Len(names) THEN <<>>
    ELSE IF names[k] # <<>> /\ names[k] \notin seen
         THEN <<names[k]>> \o GroupKeys(names, k + 1, seen \cup {names[k]})
         ELSE GroupKeys(names, k + 1, seen)

\* normalized_groups[normalized]: the books (by index) in list order
GroupBooks(names, normalized) ==
    Pick([i \in 1..Len(names) |-> i], {i \in 1..Len(names) : names[i] = normalized})

\* original_names
OriginalNames(catalog_books, books) ==
    {catalog_books[books[k]].series_name : k \in 1..Len(books)}

\* variant of SortKey: only the length is looked at
SortKey_length(x) == <<0, 0, Len(x)>>

\* the sort key of the canonical candidates; False is 0, True is 1
SortKey(x) ==
    <<IF Contains(Tabulated(Lower(x)), <<"s", "e", "r", "i", "e", "s">>) THEN 0 ELSE 1,
      IF IsLowerCase(x[1]) THEN 1 ELSE 0,
      Len(x)>>

\* tuple comparison of two sort keys
KeyLess(a, b) ==
    \/ a[1] < b[1]
    \/ a[1] = b[1] /\ a[2] < b[2]
    \/ a[1] = b[1] /\ a[2] = b[2] /\ a[3] < b[3]

\* sorted(iteration, key=...): a stable sort, so among equal keys the order
\* of the iteration is kept
RECURSIVE SortedByKey(_)
SortedByKey(iteration) ==
    IF iteration = <<>> THEN <<>>
    ELSE LET i == CHOOSE a \in 1..Len(iteration) :
                      /\ \A b \in 1..Len(iteration) : ~KeyLess(SortKey(iteration[b]), SortKey(iteration[a]))
                      /\ \A b \in 1..(a - 1) : KeyLess(SortKey(iteration[a]), SortKey(iteration[b]))
         IN  <<iteration[i]>> \o SortedByKey(Pick(iteration, (1..Len(iteration)) \ {i}))

\* ord() of the characters series names are written in
CodePoint(c) ==
    IF IsUpper(c) THEN 64 + (CHOOSE i \in 1..26 : UpperS[i] = c)
    ELSE IF IsLetter(c) THEN 96 + (CHOOSE i \in 1..26 : LowerS[i] = c)
    ELSE IF c = " " THEN 32
    ELSE IF c = "'" THEN 39
    ELSE IF c = "-" THEN 45
    ELSE IF c = ":" THEN 58
    ELSE 0

\* a < b on str
StrLess(a, b) ==
    \E k \in 1..(Len(b)) :
        /\ k <= Len(a) + 1
        /\ \A m \in 1..(k - 1) : a[m] = b[m]
        /\ (k <= Len(a) => CodePoint(a[k]) < CodePoint(b[k]))

\* sorted() of a set of strings
RECURSIVE SortedStrings(_)
SortedStrings(S) ==
    IF S = {} THEN <<>>
    ELSE LET least == CHOOSE x \in S : \A y \in S \ {x} : StrLess(x, y)
         IN  <<least>> \o SortedStrings(S \ {least})

\* sorted() of a set of positions
RECURSIVE SortedInts(_)
SortedInts(S) ==
    IF S = {} THEN <<>>
    ELSE LET least == CHOOSE x \in S : \A y \in S : x <= y
         IN  <<least>> \o SortedInts(S \ {least})

\* the orders in which a set may be iterated
Iterations(S) ==
    {it \in [1..Cardinality(S) -> S] : \A a, b \in 1..Cardinality(S) : a # b => it[a] # it[b]}

\* the dictionary appended to consolidations for one key with several names;
\* iteration is the order in which the set original_names is walked
Consolidation(catalog_books, names, normalized, iteration) ==
    LET books == GroupBooks(names, normalized)
        positions == Pick([k \in 1..Len(books) |-> catalog_books[books[k]].series_position],
                          {k \in 1..Len(books) : catalog_books[books[k]].series_position # 0})
        has_overlapping_positions == Len(positions) # Cardinality(Range(positions))
        unique_positions == SortedInts(Range(positions))
        is_sequential ==
            /\ Len(unique_positions) > 1
            /\ \A i \in 2..Len(unique_positions) : unique_positions[i] = unique_positions[i - 1] + 1
    IN  [canonical_name |-> SortedByKey(iteration)[1],
         variant_names |-> SortedStrings(Range(iteration)),
         normalized_name |-> normalized,
         books |-> books,
         total_books |-> Len(books),
         confidence |-> IF has_overlapping_positions \/ is_sequential THEN "high" ELSE "medium",
         positions |-> unique_positions]

\* the loop over normalized_groups.items() from the k-th key on; walk gives,
\* for a key, the order in which its set of names is iterated
RECURSIVE ConsolidationLoop(_, _, _, _, _)
ConsolidationLoop(catalog_books, names, keys, walk, k) ==
    IF k > Len(keys) THEN <<>>
    ELSE (IF Cardinality(OriginalNames(catalog_books, GroupBooks(names, keys[k]))) > 1
          THEN <<Consolidation(catalog_books, names, keys[k], walk[keys[k]])>>
          ELSE <<>>)
         \o ConsolidationLoop(catalog_books, names, keys, walk, k + 1)

\* the ways the sets of names of a book list may be iterated: one order for
\* each key
Walks(catalog_books) ==
    LET names == NormalizedNames(catalog_books)
        keys == Range(GroupKeys(names, 1, {}))
        originals == Tabulated([key \in keys |->
                                   OriginalNames(catalog_books, GroupBooks(names, key))])
    IN  {walk \in [keys -> UNION {Iterations(originals[key]) : key \in keys}] :
            \A key \in keys : Range(walk[key]) = originals[key]}

find_series_consolidations(catalog_books, walk) ==
    LET names == NormalizedNames(catalog_books)
    IN  ConsolidationLoop(catalog_books, names, GroupKeys(names, 1, {}), walk, 1)

\* the books of a consolidation whose series_name is not the canonical name
Variants(consolidation, catalog_books) ==
    {i \in Range(consolidation.books) :
        catalog_books[i].series_name # consolidation.canonical_name}

\* variant of execute_consolidation: only one book is renamed and counted
execute_consolidation_one(consolidation, catalog_books, dry_run) ==
    LET one == CHOOSE i \in Variants(consolidation, catalog_books) : TRUE
    IN  [catalog_books |->
             IF dry_run THEN catalog_books
             ELSE [catalog_books EXCEPT ![one].series_name = consolidation.canonical_name],
         updated_count |-> 1]

\* execute_consolidation: the catalog books after the call and the count
\* it returns
execute_consolidation(consolidation, catalog_books, dry_run) ==
    [catalog_books |->
         IF dry_run THEN catalog_books
         ELSE [i \in 1..Len(catalog_books) |->
                  IF i \in Variants(consolidation, catalog_books)
                  THEN [catalog_books[i] EXCEPT !.series_name = consolidation.canonical_name]
                  ELSE catalog_books[i]],
     updated_count |-> Cardinality(Variants(consolidation, catalog_books))]

\* the loop over the consolidations of an author from the k-th on: the
\* catalog books at the end and the counts returned so far
RECURSIVE ConsolidateFrom(_, _, _, _, _)
ConsolidateFrom(consolidations, k, catalog_books, counts, dry_run) ==
    IF k > Len(consolidations) THEN [catalog_books |-> catalog_books, counts |-> counts]
    ELSE LET done == execute_consolidation(consolidations[k], catalog_books, dry_run)
         IN  ConsolidateFrom(consolidations, k + 1, done.catalog_books,
                             Append(counts, done.updated_count), dry_run)

----------------------------------------------------------------------------
(* Children's books: is_childrens_book.  A book is a record [title,        *)
(* series_name, categories, description], the empty string standing for    *)
(* None.                                                                   *)

\* an optional character of a class: [-\s]? or [-–—]?
AfterPClass(t, P, class) ==
    P \cup {p + 1 : p \in {q \in P : q <= Len(t) /\ t[q] \in class}}

\* the parts a pattern is made of
PLit(s) == [op |-> "lit", arg |-> s]
POpt(s) == [op |-> "opt", arg |-> s]
PClass(class) == [op |-> "class", arg |-> class]
PWords(words) == [op |-> "words", arg |-> words]
PSpaces == [op |-> "spaces", arg |-> 1]
PAnySpaces == [op |-> "spaces", arg |-> 0]
PDigits == [op |-> "digits", arg |-> 0]
PBoundary == [op |-> "b", arg |-> 0]
PDash == [op |-> "dash", arg |-> 0]

\* the positions after one part of a pattern, from the positions P before it
AfterPart(t, P, part) ==
    CASE part.op = "lit" -> AfterLit(t, P, part.arg)
      [] part.op = "opt" -> AfterOpt(t, P, part.arg)
      [] part.op = "class" -> AfterPClass(t, P, part.arg)
      [] part.op = "words" -> UNION {AfterLit(t, P, part.arg[k]) : k \in 1..Len(part.arg)}
      [] part.op = "spaces" -> AfterSpaces(t, P, part.arg)
      [] part.op = "digits" -> AfterDigits(t, P)
      [] part.op = "dash" -> AfterDash(t, P)
      [] part.op = "b" -> {q \in P : WordBoundary(t, q)}

RECURSIVE AfterParts(_, _, _, _)
AfterParts(t, P, parts, k) ==
    IF k > Len(parts) \/ P = {} THEN P
    ELSE AfterParts(t, AfterPart(t, P, parts[k]), parts, k + 1)

\* a pattern is a list of alternatives, an alternative a list of parts
childrens_title_patterns ==
    << <<<<PBoundary, PLit(<<"j", "u", "n", "i", "o", "r">>), PSpaces, PLit(<<"f", "i", "c", "t", "i", "o", "n">>), PBoundary>>>>,
       <<<<PBoundary, PLit(<<"c", "h", "i", "l", "d", "r", "e", "n">>), POpt(<<"'">>), PLit(<<"s">>), PSpaces,
           PWords(<<<<"b", "o", "o", "k">>, <<"f", "i", "c", "t", "i", "o", "n">>, <<"n", "o", "v", "e", "l">>, <<"s", "t", "o", "r", "y">>>>)>>>>,
       <<<<PBoundary, PLit(<<"k", "i", "d", "s">>), PSpaces, PWords(<<<<"b", "o", "o", "k">>, <<"f", "i", "c", "t", "i", "o", "n">>>>)>>>>,
       <<<<PBoundary, PLit(<<"y", "o", "u", "n", "g">>), PSpaces, PLit(<<"a", "d", "u", "l", "t">>), PBoundary>>>>,
       <<<<PBoundary, PLit(<<"y", "a">>), PSpaces, PWords(<<<<"b", "o", "o", "k">>, <<"f", "i", "c", "t", "i", "o", "n">>, <<"n", "o", "v", "e", "l">>>>)>>>>,
       <<<<PBoundary, PLit(<<"m", "i", "d", "d", "l", "e">>), PSpaces, PLit(<<"g", "r", "a", "d", "e">>), PBoundary>>>>,
       <<<<PBoundary, PLit(<<"t", "w", "e", "e", "n">>), PSpaces, PWords(<<<<"b", "o", "o", "k">>, <<"f", "i", "c", "t", "i", "o", "n">>>>)>>>> >>

childrens_series_keywords ==
    << <<<<PBoundary, PLit(<<"c", "u", "l">>), PClass({"-", " "}), PLit(<<"d", "e">>), PClass({"-", " "}), PLit(<<"s", "a", "c">>),
           PSpaces, PLit(<<"k", "i", "d", "s">>), PBoundary>>,
         <<PBoundary, PLit(<<"k", "i", "d", "s">>), PBoundary>>>>,
       <<<<PBoundary, PLit(<<"g", "o", "o", "s", "e", "b", "u", "m", "p", "s">>), PBoundary>>,
         <<PBoundary, PLit(<<"p", "e", "r", "c", "y">>), PSpaces, PLit(<<"j", "a", "c", "k", "s", "o", "n">>), PBoundary>>,
         <<PBoundary, PLit(<<"d", "i", "a", "r", "y">>), PSpaces, PLit(<<"o", "f">>), PSpaces, PLit(<<"a">>), PSpaces, PLit(<<"w", "i", "m", "p", "y">>),
           PSpaces, PLit(<<"k", "i", "d">>), PBoundary>>>> >>

age_range_patterns ==
    << <<<<PLit(<<"a", "g", "e">>), POpt(<<"s">>), PSpaces, PDigits, PAnySpaces, PClass(DashChars), PAnySpaces, PDigits>>>>,
       <<<<PLit(<<"f", "o", "r">>), PSpaces, PLit(<<"a", "g", "e">>), POpt(<<"s">>), PSpaces, PDigits>>>>,
       <<<<PDigits, PAnySpaces, PDash, PAnySpaces, PDigits, PSpaces,
           PLit(<<"y", "e", "a", "r">>), POpt(<<"s">>), PSpaces, PLit(<<"o", "l", "d">>)>>>>,
       <<<<PLit(<<"g", "r", "a", "d", "e">>), PSpaces, PDigits>>>>,
       <<<<PLit(<<"g", "r", "a", "d", "e">>), POpt(<<"s">>), PSpaces, PDigits, PAnySpaces, PDash,
           PAnySpaces, PDigits>>>> >>

childrens_series_patterns ==
    << <<<<PBoundary, PLit(<<"g", "o", "o", "s", "e", "b", "u", "m", "p", "s">>), PBoundary>>>>,
       <<<<PBoundary, PLit(<<"h", "a", "r", "r", "y", " ", "p", "o", "t", "t", "e", "r">>), PBoundary>>>>,
       <<<<PBoundary, PLit(<<"p", "e", "r", "c", "y", " ", "j", "a", "c", "k", "s", "o", "n">>), PBoundary>>>>,
       <<<<PBoundary, PLit(<<"d", "i", "a", "r", "y", " ", "o", "f", " ", "a", " ", "w", "i", "m", "p", "y", " ", "k", "i", "d">>), PBoundary>>>> >>

\* where the pattern may end when matched from position p of t
PatternEnds(pattern, t, p) ==
    UNION {AfterParts(t, {p}, pattern[a], 1) : a \in 1..Len(pattern)}

\* re.search(pattern, t, re.IGNORECASE).group(), '' when there is no match:
\* the match from the leftmost position where there is one
ReSearch(pattern, t) ==
    LET l == Tabulated(Lower(t))
        starts == {p \in 1..(Len(t) + 1) : PatternEnds(pattern, l, p) # {}}
    IN  IF starts = {} THEN <<>>
        ELSE LET p == CHOOSE a \in starts : \A b \in starts : a <= b
                 ends == PatternEnds(pattern, l, p)
             IN  SubSeq(t, p, (CHOOSE a \in ends : \A b \in ends : b <= a) - 1)

\* the first pattern of the list that is found in t (0: none is)
FirstPattern(patterns, t) ==
    LET found == {r \in 1..Len(patterns) : ReSearch(patterns[r], t) # <<>>}
    IN  IF found = {} THEN 0 ELSE CHOOSE r \in found : \A s \in found : r <= s

childrens_categories ==
    <<<<"j", "u", "v", "e", "n", "i", "l", "e", " ", "f", "i", "c", "t", "i", "o", "n">>, <<"j", "u", "v", "e", "n", "i", "l", "e", " ", "l", "i", "t", "e", "r", "a", "t", "u", "r", "e">>, <<"c", "h", "i", "l", "d", "r", "e", "n", "'", "s", " ", "f", "i", "c", "t", "i", "o", "n">>, <<"c", "h", "i", "l", "d", "r", "e", "n", "'", "s", " ", "l", "i", "t", "e", "r", "a", "t", "u", "r", "e">>,
      <<"y", "o", "u", "n", "g", " ", "a", "d", "u", "l", "t", " ", "f", "i", "c", "t", "i", "o", "n">>, <<"y", "o", "u", "n", "g", " ", "a", "d", "u", "l", "t", " ", "l", "i", "t", "e", "r", "a", "t", "u", "r", "e">>, <<"m", "i", "d", "d", "l", "e", " ", "g", "r", "a", "d", "e">>, <<"p", "i", "c", "t", "u", "r", "e", " ", "b", "o", "o", "k">>,
      <<"e", "a", "r", "l", "y", " ", "r", "e", "a", "d", "e", "r">>, <<"c", "h", "a", "p", "t", "e", "r", " ", "b", "o", "o", "k">>>>

childrens_keywords ==
    <<<<"f", "o", "r", " ", "c", "h", "i", "l", "d", "r", "e", "n">>, <<"f", "o", "r", " ", "k", "i", "d", "s">>, <<"f", "o", "r", " ", "y", "o", "u", "n", "g", " ", "r", "e", "a", "d", "e", "r", "s">>, <<"s", "u", "i", "t", "a", "b", "l", "e", " ", "f", "o", "r", " ", "a", "g", "e", "s">>,
      <<"r", "e", "c", "o", "m", "m", "e", "n", "d", "e", "d", " ", "f", "o", "r", " ", "a", "g", "e", "s">>, <<"t", "a", "r", "g", "e", "t", " ", "a", "u", "d", "i", "e", "n", "c", "e", ":", " ", "c", "h", "i", "l", "d", "r", "e", "n">>, <<"t", "a", "r", "g", "e", "t", " ", "a", "u", "d", "i", "e", "n", "c", "e", ":", " ", "k", "i", "d", "s">>>>

\* the first string of the list that is within t (0: none is)
FirstWithin(list, t) ==
    LET found == {k \in 1..Len(list) : Contains(t, list[k])}
    IN  IF found = {} THEN 0 ELSE CHOOSE k \in found : \A j \in found : k <= j

is_childrens_book(book) ==
    LET title == Tabulated(Lower(book.title))
        categories == Tabulated(Lower(book.categories))
        description == Tabulated(Lower(book.description))
        all_text == title \o <<" ">> \o categories \o <<" ">> \o description
        p1 == FirstPattern(childrens_title_patterns, title)
        p1b == FirstPattern(childrens_series_keywords, title)
        p2 == FirstPattern(age_range_patterns, all_text)
        p3 == FirstWithin(childrens_categories, categories)
        p4 == FirstWithin(childrens_keywords, description)
    IN  IF p1 # 0
        THEN <<TRUE, <<Reason("Children's indicator in title", ReSearch(childrens_title_patterns[p1], title))>>>>
        ELSE IF p1b # 0
        THEN IF /\ book.series_name # <<>>
                /\ ReSearch(childrens_series_keywords[p1b], Tabulated(Lower(book.series_name))) # <<>>
             THEN <<TRUE, <<Reason("Children's series name",
                                   ReSearch(childrens_series_keywords[p1b], book.series_name))>>>>
             ELSE <<TRUE, <<Reason("Children's series in title", ReSearch(childrens_series_keywords[p1b], title))>>>>
        ELSE IF p2 # 0
        THEN <<TRUE, <<Reason("Age range indicator", ReSearch(age_range_patterns[p2], all_text))>>>>
        ELSE IF p3 # 0
        THEN <<TRUE, <<Reason("Children's category", childrens_categories[p3])>>>>
        ELSE IF p4 # 0
        THEN <<TRUE, <<Reason("Children's keyword in description", childrens_keywords[p4])>>>>
        ELSE IF /\ FirstPattern(childrens_series_patterns, all_text) # 0
                /\ FirstWithin(<<<<"c", "h", "i", "l", "d", "r", "e", "n">>, <<"k", "i", "d", "s">>, <<"y", "o", "u", "n", "g">>, <<"j", "u", "v", "e", "n", "i", "l", "e">>>>, all_text) # 0
        THEN <<TRUE, <<Reason("Known children's series with children's context", <<>>)>>>>
        ELSE <<FALSE, <<>>>>

----------------------------------------------------------------------------
(* Series extraction: extract_series_from_title (the same code is in       *)
(* extract_series_info of the Open Library client).  The result is         *)
(* <<series_name, series_position>>; None is the empty name and the        *)
(* position -1.                                                            *)

NoSeries == <<<<>>, -1>>

\* re.search(r'\(([^)]+)\)', title): the positions of the two parentheses of
\* the leftmost match, <<>> when there is none
paren_match_last(title) ==
    LET close(i) == {j \in (i + 2)..Len(title) :
                        title[j] = ")" /\ \A k \in (i + 1)..(j - 1) : title[k] # ")"}
        opens == {i \in 1..Len(title) : title[i] = "(" /\ close(i) # {}}
    IN  IF opens = {} THEN <<>>
        ELSE LET i == CHOOSE a \in opens : \A b \in opens : b <= a
             IN  <<i, CHOOSE j \in close(i) : TRUE>>

paren_match(title) ==
    LET close(i) == {j \in (i + 2)..Len(title) :
                        title[j] = ")" /\ \A k \in (i + 1)..(j - 1) : title[k] # ")"}
        opens == {i \in 1..Len(title) : title[i] = "(" /\ close(i) # {}}
    IN  IF opens = {} THEN <<>>
        ELSE LET i == CHOOSE a \in opens : \A b \in opens : a <= b
             IN  <<i, CHOOSE j \in close(i) : TRUE>>

\* (?:\s+Book)?\s*#?\s* matched from position k of c, ignoring case: the
\* positions of a digit it can stop before
NumberStarts(c, k) ==
    LET l == Tabulated(Lower(c))
        after == AfterSpaces(l, AfterOpt(l, AfterSpaces(l,
                     {k} \cup AfterLit(l, AfterSpaces(l, {k}, 1), <<"b", "o", "o", "k">>), 0), <<"#">>), 0)
    IN  {p \in after : p <= Len(c) /\ IsDigit(c[p])}

\* the last digit of the run of digits that starts at d
DigitsEnd(c, d) ==
    CHOOSE e \in d..Len(c) :
        /\ \A k \in d..e : IsDigit(c[k])
        /\ e = Len(c) \/ ~IsDigit(c[e + 1])

\* re.search(r'(.+?)(?:\s+Book)?\s*#?\s*(\d+)', paren_content, re.IGNORECASE):
\* groups 1 and 2 of the leftmost match, <<>> when there is none.  Group 1
\* is the shortest run of characters, none a line break, after which the
\* rest of the pattern matches.
book_pattern(c) ==
    LET ends(s) == {k \in (s + 1)..Len(c) :
                       /\ \A m \in s..(k - 1) : c[m] # "\n"
                       /\ NumberStarts(c, k) # {}}
        starts == {s \in 1..Len(c) : ends(s) # {}}
    IN  IF starts = {} THEN <<>>
        ELSE LET s == CHOOSE a \in starts : \A b \in starts : a <= b
                 k == CHOOSE a \in ends(s) : \A b \in ends(s) : a <= b
                 d == CHOOSE p \in NumberStarts(c, k) : TRUE
             IN  <<SubSeq(c, s, k - 1), SubSeq(c, d, DigitsEnd(c, d))>>

\* re.sub(r'\s+Book\s*$', '', s, flags=re.IGNORECASE)
WithoutTrailingBook(s) ==
    LET l == Tabulated(Lower(s))
        matches == {i \in 1..Len(s) :
                       \E a \in (i + 1)..(Len(s) - 3) :
                           /\ \A k \in i..(a - 1) : IsSpace(s[k])
                           /\ HasAt(l, a, <<"b", "o", "o", "k">>)
                           /\ \A k \in (a + 4)..Len(s) : IsSpace(s[k])}
    IN  IF matches = {} THEN s
        ELSE SubSeq(s, 1, (CHOOSE i \in matches : \A j \in matches : i <= j) - 1)

\* int(position_str) for a string of digits
RECURSIVE ToInt(_)
ToInt(digits) ==
    IF digits = <<>> THEN 0
    ELSE 10 * ToInt(SubSeq(digits, 1, Len(digits) - 1))
         + (CHOOSE v \in 0..9 : ToString(v) = digits[Len(digits)])

extract_series_from_title(title) ==
    IF title = <<>> THEN NoSeries
    ELSE LET m == paren_match(title)
         IN  IF m = <<>> THEN NoSeries
             ELSE LET found == book_pattern(SubSeq(title, m[1] + 1, m[2] - 1))
                  IN  IF found = <<>> THEN NoSeries
                      ELSE LET potential_series == Strip(WithoutTrailingBook(Strip(found[1])))
                           IN  IF potential_series # <<>> /\ Len(potential_series) > 2
                               THEN <<potential_series, ToInt(found[2])>>
                               ELSE NoSeries

----------------------------------------------------------------------------
(* Applying the decisions: execute_deduplication on the actions built from *)
(* the report of analyze_author_catalog, and the auto-flag loop of         *)
(* check_authors_with_many_recommendations.  The database is seen through  *)
(* what the handlers change: the catalog books deleted and the             *)
(* recommendations whose duplicate flag (and feedback_date) is set.        *)

\* the recommendations that point at a catalog book: <<id, catalog_book_id>>
RecommendationLinks == {<<101, 2>>, <<102, 2>>, <<103, 4>>, <<104, 7>>}

\* display_duplicates_for_approval: one action for each group of the report
Actions(rep) ==
    [g \in 1..Len(rep) |-> [keep_id |-> rep[g].keep, remove_ids |-> rep[g].remove]]

NoStats == [catalog_books_deleted |-> 0, recommendations_flagged |-> 0, errors |-> 0]

\* the loop of execute_deduplication over the actions; st is [deleted,
\* flagged, stats], failing the actions whose commit raises
RECURSIVE ExecLoop(_, _, _, _, _)
ExecLoop(actions, i, dry_run, failing, st) ==
    IF i > Len(actions) THEN st
    ELSE LET remove_ids == actions[i].remove_ids
             found == Range(remove_ids) \ st.deleted
             recs == {l \in RecommendationLinks : l[2] \in Range(remove_ids)}
             counted == [st.stats EXCEPT
                            !.catalog_books_deleted = @ + (IF dry_run THEN Len(remove_ids)
                                                           ELSE Cardinality(found)),
                            !.recommendations_flagged = @ + (IF dry_run THEN Len(remove_ids)
                                                             ELSE Cardinality(recs))]
         IN  ExecLoop(actions, i + 1, dry_run, failing,
                 IF dry_run THEN [st EXCEPT !.stats = counted]
                 ELSE IF i \in failing
                 THEN [st EXCEPT !.stats = [counted EXCEPT !.errors = @ + 1]]
                 ELSE [deleted |-> st.deleted \cup found,
                       flagged |-> st.flagged \cup {l[1] : l \in recs},
                       stats |-> counted])

execute_deduplication(actions, dry_run, failing) ==
    ExecLoop(actions, 1, dry_run, failing, [deleted |-> {}, flagged |-> {}, stats |-> NoStats])

----------------------------------------------------------------------------
(* remove_duplicate_titles.  A catalog book is a record [id, author_id,    *)
(* title] with the columns the completeness score tests for truth; a book  *)
(* is a record [id, author, title].  The tables are sets of rows.          *)

CatalogRows ==
    {[id |-> 1, author_id |-> 1, title |-> <<"D", "u", "n", "e">>, isbn |-> FALSE, description |-> TRUE,
      open_library_key |-> FALSE, google_books_id |-> FALSE, publication_date |-> FALSE],
     [id |-> 2, author_id |-> 1, title |-> <<"d", "u", "n", "e", " ", " ", "[", "1", "/", "2", "]">>, isbn |-> TRUE, description |-> FALSE,
      open_library_key |-> FALSE, google_books_id |-> FALSE, publication_date |-> FALSE],
     [id |-> 3, author_id |-> 1, title |-> <<"D", "u", "n", "e", " ", "(", "S", "p", "e", "c", "i", "a", "l", " ", "E", "d", "i", "t", "i", "o", "n", ")">>, isbn |-> FALSE, description |-> TRUE,
      open_library_key |-> FALSE, google_books_id |-> FALSE, publication_date |-> FALSE],
     [id |-> 4, author_id |-> 2, title |-> <<"D", "u", "n", "e">>, isbn |-> FALSE, description |-> FALSE,
      open_library_key |-> FALSE, google_books_id |-> FALSE, publication_date |-> FALSE],
     [id |-> 5, author_id |-> 2, title |-> <<"D", "U", "N", "E">>, isbn |-> FALSE, description |-> FALSE,
      open_library_key |-> FALSE, google_books_id |-> TRUE, publication_date |-> FALSE],
     [id |-> 6, author_id |-> 1, title |-> <<" ", "[", "1", "/", "2", "]", " ">>, isbn |-> TRUE, description |-> TRUE,
      open_library_key |-> TRUE, google_books_id |-> FALSE, publication_date |-> FALSE],
     [id |-> 7, author_id |-> 1, title |-> <<"[", "2", "/", "2", "]">>, isbn |-> FALSE, description |-> FALSE,
      open_library_key |-> FALSE, google_books_id |-> FALSE, publication_date |-> TRUE]}

BookRows ==
    {[id |-> 1, author |-> <<"F", "r", "a", "n", "k", " ", "H", "e", "r", "b", "e", "r", "t">>, title |-> <<"D", "u", "n", "e">>],
     [id |-> 2, author |-> <<"f", "r", "a", "n", "k", " ", "h", "e", "r", "b", "e", "r", "t", " ">>, title |-> <<" ", "d", "u", "n", "e">>],
     [id |-> 3, author |-> <<"F", "r", "a", "n", "k", " ", "H", "e", "r", "b", "e", "r", "t">>, title |-> <<"E", "m", "m", "a">>]}

\* edition|version|translation at position p
DedupKw(s, p) ==
    \/ HasAt(s, p, <<"e", "d", "i", "t", "i", "o", "n">>)
    \/ HasAt(s, p, <<"v", "e", "r", "s", "i", "o", "n">>)
    \/ HasAt(s, p, <<"t", "r", "a", "n", "s", "l", "a", "t", "i", "o", "n">>)

\* \s*\([^)]*(?:edition|version|translation)[^)]*\) and its bracket form
DedupEnclosedEnd(s, i, open, close) ==
    LET j == SkipSpaces(s, i)
        k == IF j <= Len(s) THEN FirstAt(s, j + 1, close) ELSE 0
    IN  IF j <= Len(s) /\ s[j] = open /\ k > 0 /\ (\E p \in (j + 1)..(k - 1) : DedupKw(s, p))
        THEN k ELSE 0

normalize_title_for_dedup(title) ==
    IF title = <<>> THEN <<>>
    ELSE LET t1 == SubSplitMarker(title)
             l1 == Tabulated(Lower(t1))
             t2 == ReSub(t1, [i \in 1..Len(t1) |-> DedupEnclosedEnd(l1, i, "(", ")")], <<>>)
             l2 == Tabulated(Lower(t2))
             t3 == ReSub(t2, [i \in 1..Len(t2) |-> DedupEnclosedEnd(l2, i, "[", "]")], <<>>)
         IN  Strip(JoinSplit(Lower(t3)))

\* score_book of remove_duplicate_titles
completeness_score(book) ==
    (IF book.isbn THEN 10 ELSE 0) + (IF book.description THEN 5 ELSE 0)
    + (IF book.open_library_key THEN 3 ELSE 0) + (IF book.google_books_id THEN 2 ELSE 0)
    + (IF book.publication_date THEN 1 ELSE 0)

DedupMemo ==
    Tabulated([title \in {b.title : b \in CatalogRows} |-> normalize_title_for_dedup(title)])

\* normalize_title_for_dedup is pure: remove_duplicate_titles reads its
\* values from dedup_memo, which holds DedupMemo from the first state on
VARIABLE dedup_memo

\* the keys of catalog_duplicates: (author_id, title_key) with a title_key
\* that is not empty
CatalogKey(book) == <<book.author_id, dedup_memo[book.title]>>

catalog_duplicates(catalog) ==
    LET key_of == Tabulated([b \in catalog |-> CatalogKey(b)])
    IN  Tabulated([key \in {key_of[b] : b \in {c \in catalog : key_of[c][2] # <<>>}} |->
                      {b \in catalog : key_of[b] = key}])

\* books_sorted[0] of sorted(books, key=lambda b: b.id), for the Book table
first_book(books) ==
    CHOOSE b \in books : \A o \in books : b.id <= o.id

\* variant of keep_book: the oldest book of the set, whatever its score
keep_book_oldest(books) ==
    CHOOSE b \in books : \A o \in books : b.id <= o.id

\* books_sorted[0] of sorted(books, key=lambda b: (-score_book(b), b.id))
keep_book(books) ==
    CHOOSE b \in books : \A o \in books :
        \/ completeness_score(o) < completeness_score(b)
        \/ completeness_score(o) = completeness_score(b) /\ b.id <= o.id

\* the keys of book_duplicates: (author_key, title_key), both not empty
BookKey(book) == <<Strip(Lower(book.author)), Strip(Lower(book.title))>>

book_duplicates(books) ==
    LET key_of == Tabulated([b \in books |-> BookKey(b)])
    IN  Tabulated([key \in {key_of[b] : b \in {c \in books : key_of[c][1] # <<>> /\ key_of[c][2] # <<>>}} |->
                      {b \in books : key_of[b] = key}])

\* the sets of two books or more
DupsFound(duplicates) == {key \in DOMAIN duplicates : Cardinality(duplicates[key]) > 1}

\* catalog_books_to_remove and books_to_remove: every book of a set of
\* duplicates but the one that is kept
catalog_books_to_remove(catalog_dups) ==
    UNION {catalog_dups[key] \ {keep_book(catalog_dups[key])} : key \in DupsFound(catalog_dups)}

books_to_remove(book_dups) ==
    UNION {book_dups[key] \ {first_book(book_dups[key])} : key \in DupsFound(book_dups)}

\* the tables after the call and the stats returned (error: the stats have
\* an 'error' entry), given the two dictionaries of duplicates
Removal(catalog, books, catalog_dups, book_dups, removing, failed) ==
    [catalog |-> IF removing THEN catalog \ catalog_books_to_remove(catalog_dups) ELSE catalog,
     books |-> IF removing THEN books \ books_to_remove(book_dups) ELSE books,
     stats |-> [catalog_duplicates_found |-> Cardinality(DupsFound(catalog_dups)),
                catalog_duplicates_removed |->
                    IF removing THEN Cardinality(catalog_books_to_remove(catalog_dups)) ELSE 0,
                book_duplicates_found |-> Cardinality(DupsFound(book_dups)),
                book_duplicates_removed |->
                    IF removing THEN Cardinality(books_to_remove(book_dups)) ELSE 0,
                error |-> failed]]

\* variant of remove_duplicate_titles: a commit that raises is not rolled back
remove_duplicate_titles_norollback(catalog, books, dry_run, commit_raises) ==
    Removal(catalog, books, catalog_duplicates(catalog), book_duplicates(books),
            ~dry_run, ~dry_run /\ commit_raises)

\* remove_duplicate_titles over all authors
remove_duplicate_titles(catalog, books, dry_run, commit_raises) ==
    Removal(catalog, books, catalog_duplicates(catalog), book_duplicates(books),
            ~dry_run /\ ~commit_raises, ~dry_run /\ commit_raises)

----------------------------------------------------------------------------
(* process_catalog_books.  The table is a sequence of catalog books in the *)
(* order of their ids (the id of a book is its index); a book is a record  *)
(* [title, series_name, series_position], with <<>> for a series_name that *)
(* is None or empty and -1 for a series_position that is None.             *)

\* max_retries of the commit loop
max_retries == 5

\* variant of may_retry: a locked batch is retried without end
retries_forever(retry_count) == TRUE

\* the condition of the retry loop once a commit found the database locked
may_retry(retry_count) == retry_count < max_retries

\* variant of needs_series: every book is selected
needs_series_any(book) == TRUE

\* the filter of the query: series_name is None or ''
needs_series(book) == book.series_name = <<>>

\* the ids of the query's rows from id i on, ordered by id
RECURSIVE QueryFrom(_, _)
QueryFrom(catalog, i) ==
    IF i > Len(catalog) THEN <<>>
    ELSE (IF needs_series(catalog[i]) THEN <<i>> ELSE <<>>) \o QueryFrom(catalog, i + 1)

\* query.offset(offset).limit(limit).all(); an offset or limit of 0 is not applied
catalog_books(catalog, limit, offset) ==
    LET rows == QueryFrom(catalog, 1)
        rest == SubSeq(rows, offset + 1, Len(rows))
    IN  IF limit > 0 /\ limit < Len(rest) THEN SubSeq(rest, 1, limit) ELSE rest

\* pending_updates of the scan from the k-th selected book on: an update for
\* every book whose title gives a series name
RECURSIVE PendingFrom(_, _, _)
PendingFrom(catalog, ids, k) ==
    IF k > Len(ids) THEN <<>>
    ELSE LET found == extract_series_from_title(catalog[ids[k]].title)
         IN  (IF found[1] # <<>>
              THEN <<[book |-> ids[k], series_name |-> found[1], series_position |-> found[2]]>>
              ELSE <<>>) \o PendingFrom(catalog, ids, k + 1)

pending_updates(catalog, limit, offset) ==
    PendingFrom(catalog, catalog_books(catalog, limit, offset), 1)

\* pending_updates[batch_start:batch_start + batch_size]
batch_of(pending, batch_start, batch_size) ==
    SubSeq(pending, batch_start + 1,
           IF batch_start + batch_size < Len(pending) THEN batch_start + batch_size
           ELSE Len(pending))

\* the table once the updates of a batch are committed; a series_position
\* that is None or 0 is not assigned
apply_batch(catalog, batch) ==
    [i \in 1..Len(catalog) |->
        IF \E k \in 1..Len(batch) : batch[k].book = i
        THEN LET update == batch[CHOOSE k \in 1..Len(batch) : batch[k].book = i]
             IN  [title |-> catalog[i].title,
                  series_name |-> update.series_name,
                  series_position |-> IF update.series_position > 0
                                      THEN update.series_position
                                      ELSE catalog[i].series_position]
        ELSE catalog[i]]

----------------------------------------------------------------------------
(* State                                                                   *)

VARIABLES
    variant,        \* "rec": find_duplicate_groups, "cat": find_catalog_duplicates
    entries,        \* the list handed to the grouper
    all_groups,     \* all_groups of the running call
    group_id,       \* group_id of the running call
    processed_ids,  \* processed_ids of the running call
    pc,             \* position in the call and in its caller
    loop_i,         \* index of rec1 in the substring loop
    run,            \* 1: first grouping, 2: grouping of the survivors
    report,         \* the keep / remove decisions of the first grouping
    n_title,        \* normalizer: the title handed to normalize_title_advanced
    n_once,         \* normalizer: normalize_title_advanced(title)
    n_twice,        \* normalizer: normalize_title_advanced of n_once
    n_pc,           \* normalizer: "start", "once", "twice"
    s_a,            \* scorer: first string
    s_b,            \* scorer: second string
    s_dist,         \* scorer: <<levenshtein_distance(a, b), levenshtein_distance(b, a)>>
    s_sim,          \* scorer: <<similarity_score(a, b), similarity_score(b, a)>>
    s_pc,           \* scorer: "start", "scored"
    l_title,        \* classifier: the title handed to detect_non_english_title
    l_verdict,      \* classifier: is_non_english
    l_reasons,      \* classifier: reasons
    l_pc,           \* classifier: "start", "classified"
    c_catalog,      \* composites: catalog_books handed to find_composite_standalone_matches
    c_composite_books,  \* composites: composite_books, as indices into c_catalog
    c_standalone_books, \* composites: standalone_books, as indices into c_catalog
    c_matches,      \* composites: matches
    c_pc,           \* composites: "start", "matched"
    r_books,        \* series: the catalog books of the author, in query order
    r_first,        \* series: the consolidations of a first call
    r_again,        \* series: the same books in the order of a second query
    r_second,       \* series: the consolidations of the second call
    r_pc,           \* series: "start", "once", "twice", "executed", "rechecked"
    r_dry_run,      \* series: dry_run of the execute_consolidation calls
    r_counts,       \* series: what execute_consolidation returned for each consolidation
    r_after,        \* series: the catalog books after the execute_consolidation calls
    r_third,        \* series: the consolidations found after the calls
    k_book,         \* children's books: the book handed to is_childrens_book
    k_verdict,      \* children's books: is_childrens
    k_reasons,      \* children's books: reasons
    k_pc,           \* children's books: "start", "classified"
    e_title,        \* core functions: the title they are applied to
    e_other,        \* core functions: the other string handed to similarity_score
    e_done,         \* core functions: the functions applied so far
    e_norm,         \* core functions: normalize_title_advanced(title)
    e_base,         \* core functions: extract_base_title(title)
    e_series,       \* core functions: extract_series_from_title(title)
    e_lang,         \* core functions: detect_non_english_title(title)
    e_sim,          \* core functions: <<similarity_score(title, other), similarity_score(other, title)>>
    x_dry_run,      \* applying: dry_run of the call
    x_auto_flag,    \* applying: auto_flag of the call
    x_failing,      \* applying: the commits that raise
    x_deleted,      \* applying: the catalog books deleted
    x_flagged,      \* applying: the recommendations flagged as duplicate
    x_stats,        \* applying: the stats returned by execute_deduplication
    d_catalog,      \* duplicate titles: the rows of the catalog book table
    d_books,        \* duplicate titles: the rows of the book table
    d_log,          \* duplicate titles: the calls of remove_duplicate_titles so far
    b_catalog,      \* series batches: the catalog book table as committed
    b_pc,           \* series batches: "ready", "commit", "closed" or "raised"
    b_run,          \* series batches: the runs of process_catalog_books started
    b_args,         \* series batches: the arguments of the running call and the table it found
    b_pending,      \* series batches: pending_updates of the running call
    b_batch_start,  \* series batches: batch_start of the commit loop
    b_retry_count,  \* series batches: retry_count of the running batch
    b_committed,    \* series batches: committed of the running call
    b_attempts,     \* series batches: the commit attempts of the running call
    b_prev          \* series batches: what the call before did

groupVars == <<title_memo, variant, entries, all_groups, group_id, processed_ids, pc, loop_i, run, report>>

normVars == <<n_title, n_once, n_twice, n_pc>>

simVars == <<s_a, s_b, s_dist, s_sim, s_pc>>

langVars == <<l_title, l_verdict, l_reasons, l_pc>>

compVars == <<comp_memo, c_catalog, c_composite_books, c_standalone_books, c_matches, c_pc>>

seriesVars == <<series_memo, r_books, r_first, r_again, r_second, r_pc, r_dry_run, r_counts, r_after, r_third>>

kidsVars == <<k_book, k_verdict, k_reasons, k_pc>>

coreVars == <<e_title, e_other, e_done, e_norm, e_base, e_series, e_lang, e_sim>>

execVars == <<x_dry_run, x_auto_flag, x_failing, x_deleted, x_flagged, x_stats>>

dedupVars == <<dedup_memo, d_catalog, d_books, d_log>>

batchVars == <<b_catalog, b_pc, b_run, b_args, b_pending, b_batch_start, b_retry_count, b_committed, b_attempts, b_prev>>

vars == <<groupVars, normVars, simVars, langVars, compVars, seriesVars, kidsVars, coreVars, execVars, dedupVars, batchVars>>

\* the largest list handed to the grouper
MaxEntries == 4

NumFixtures == Len(Fixtures)

\* lists of distinct records, in any order
EntryLists ==
    LET idx == UNION {[1..n -> 1..NumFixtures] : n \in 0..MaxEntries}
        inj == {l \in idx : \A a, b \in DOMAIN l : a # b => l[a] # l[b]}
    IN  {[k \in DOMAIN l |-> Fixtures[l[k]]] : l \in inj}

St == [groups |-> all_groups, gid |-> group_id, processed |-> processed_ids]

SetSt(st) ==
    /\ all_groups' = st.groups
    /\ group_id' = st.gid
    /\ processed_ids' = st.processed

\* no grouping call is running
IdleGroup ==
    /\ title_memo = <<>>
    /\ variant = "none"
    /\ entries = <<>>
    /\ all_groups = <<>>
    /\ group_id = 0
    /\ processed_ids = {}
    /\ pc = "idle"
    /\ loop_i = 1
    /\ run = 1
    /\ report = <<>>

\* the normalizer is not in use
IdleNorm ==
    /\ n_title = <<>>
    /\ n_once = <<>>
    /\ n_twice = <<>>
    /\ n_pc = "idle"

\* the scorer is not in use
IdleSim ==
    /\ s_a = <<>>
    /\ s_b = <<>>
    /\ s_dist = <<0, 0>>
    /\ s_sim = <<Frac(0, 1), Frac(0, 1)>>
    /\ s_pc = "idle"

\* the language classifier is not in use
IdleLang ==
    /\ l_title = <<>>
    /\ l_verdict = FALSE
    /\ l_reasons = <<>>
    /\ l_pc = "idle"

\* find_composite_standalone_matches is not in use
IdleComp ==
    /\ comp_memo = <<>>
    /\ c_catalog = <<>>
    /\ c_composite_books = <<>>
    /\ c_standalone_books = <<>>
    /\ c_matches = <<>>
    /\ c_pc = "idle"

\* find_series_consolidations is not in use
IdleSeries ==
    /\ series_memo = <<>>
    /\ r_books = <<>>
    /\ r_first = <<>>
    /\ r_again = <<>>
    /\ r_second = <<>>
    /\ r_pc = "idle"
    /\ r_dry_run = TRUE
    /\ r_counts = <<>>
    /\ r_after = <<>>
    /\ r_third = <<>>

\* is_childrens_book is not in use
IdleKids ==
    /\ k_book = <<>>
    /\ k_verdict = FALSE
    /\ k_reasons = <<>>
    /\ k_pc = "idle"

\* the core functions are not in use
IdleCore ==
    /\ e_title = <<>>
    /\ e_other = <<>>
    /\ e_done = {"idle"}
    /\ e_norm = <<>>
    /\ e_base = <<>>
    /\ e_series = <<>>
    /\ e_lang = <<>>
    /\ e_sim = <<>>

\* nothing is applied to the database
IdleExec ==
    /\ x_dry_run = TRUE
    /\ x_auto_flag = FALSE
    /\ x_failing = {}
    /\ x_deleted = {}
    /\ x_flagged = {}
    /\ x_stats = NoStats

\* remove_duplicate_titles is not in use
IdleDedup ==
    /\ dedup_memo = <<>>
    /\ d_catalog = {}
    /\ d_books = {}
    /\ d_log = <<>>

\* process_catalog_books is not in use
IdleBatch ==
    /\ b_catalog = <<>>
    /\ b_pc = "idle"
    /\ b_run = 0
    /\ b_args = <<>>
    /\ b_pending = <<>>
    /\ b_batch_start = 0
    /\ b_retry_count = 0
    /\ b_committed = 0
    /\ b_attempts = <<>>
    /\ b_prev = <<>>

\* a grouping call on a list of distinct records
Init ==
    /\ title_memo = TitleMemo
    /\ variant \in {"rec", "cat"}
    /\ entries \in EntryLists
    /\ all_groups = <<>>
    /\ group_id = 0
    /\ processed_ids = {}
    /\ pc = "exact"
    /\ loop_i = 1
    /\ run = 1
    /\ report = <<>>
    /\ IdleNorm
    /\ IdleSim
    /\ IdleLang
    /\ IdleComp
    /\ IdleSeries
    /\ IdleKids
    /\ IdleCore
    /\ IdleExec
    /\ IdleDedup
    /\ IdleBatch

\* "Add normalized title groups"
GroupExact ==
    /\ pc = "exact"
    /\ SetSt(ExactLayer(entries, St))
    /\ pc' = "base"
    /\ UNCHANGED <<title_memo, variant, entries, loop_i, run, report, normVars, simVars, langVars, compVars, seriesVars, kidsVars, coreVars, execVars, dedupVars, batchVars>>

\* "Add base title groups"
GroupBase ==
    /\ pc = "base"
    /\ SetSt(BaseLayer(entries, St))
    /\ pc' = "isbn"
    /\ UNCHANGED <<title_memo, variant, entries, loop_i, run, report, normVars, simVars, langVars, compVars, seriesVars, kidsVars, coreVars, execVars, dedupVars, batchVars>>

\* "Add ISBN groups"
GroupIsbn ==
    /\ pc = "isbn"
    /\ SetSt(IsbnLayer(entries, St))
    /\ pc' = "fuzzy"
    /\ UNCHANGED <<title_memo, variant, entries, loop_i, run, report, normVars, simVars, langVars, compVars, seriesVars, kidsVars, coreVars, execVars, dedupVars, batchVars>>

\* variant of GroupFuzzy: the records put into a fuzzy group are taken out of
\* the list
GroupFuzzy_consuming ==
    /\ pc = "fuzzy"
    /\ SetSt(FuzzyLayer(entries, St))
    /\ entries' = Pick(entries, {i \in 1..Len(entries) :
                       entries[i].id \notin FuzzyLayer(entries, St).processed})
    /\ pc' = IF variant = "rec" /\ Len(entries') > 0 THEN "substring" ELSE "returned"
    /\ loop_i' = 1
    /\ UNCHANGED <<title_memo, variant, run, report, normVars, simVars, langVars, compVars, seriesVars, kidsVars, coreVars, execVars, dedupVars, batchVars>>

\* "Group 4: Fuzzy matching"; find_catalog_duplicates returns after it
GroupFuzzy ==
    /\ pc = "fuzzy"
    /\ SetSt(FuzzyLayer(entries, St))
    /\ pc' = IF variant = "rec" /\ Len(entries) > 0 THEN "substring" ELSE "returned"
    /\ loop_i' = 1
    /\ UNCHANGED <<title_memo, variant, entries, run, report, normVars, simVars, langVars, compVars, seriesVars, kidsVars, coreVars, execVars, dedupVars, batchVars>>

\* "Group 5: Substring matching": one iteration of the outer loop
GroupSubstring ==
    /\ pc = "substring"
    /\ SetSt(SubstringIter(entries, St, loop_i))
    /\ loop_i' = loop_i + 1
    /\ pc' = IF loop_i = Len(entries) THEN "returned" ELSE "substring"
    /\ UNCHANGED <<title_memo, variant, entries, run, report, normVars, simVars, langVars, compVars, seriesVars, kidsVars, coreVars, execVars, dedupVars, batchVars>>

\* the caller scores every group and tags its members keep / remove
SelectKeep ==
    /\ pc = "returned"
    /\ run = 1
    /\ report' = KeepReport(all_groups, variant)
    /\ pc' = "analyzed"
    /\ UNCHANGED <<title_memo, variant, entries, all_groups, group_id, processed_ids, loop_i, run, normVars, simVars, langVars, compVars, seriesVars, kidsVars, coreVars, execVars, dedupVars, batchVars>>

\* the caller removes the remove-tagged members and groups the survivors anew
RemoveAndRegroup ==
    /\ pc = "analyzed"
    /\ entries' = Survivors(entries, report)
    /\ SetSt(EmptyRun)
    /\ run' = 2
    /\ pc' = "exact"
    /\ UNCHANGED <<title_memo, variant, loop_i, report, normVars, simVars, langVars, compVars, seriesVars, kidsVars, coreVars, execVars, dedupVars, batchVars>>

\* execute_deduplication on the actions of the report of one author
ExecuteDeduplication ==
    /\ pc = "analyzed"
    /\ variant = "cat"
    /\ \E dry_run \in BOOLEAN, failing \in SUBSET (1..Len(report)) :
           /\ dry_run => failing = {}
           /\ x_dry_run' = dry_run
           /\ x_failing' = failing
           /\ LET done == execute_deduplication(Actions(report), dry_run, failing)
              IN  /\ x_deleted' = done.deleted
                  /\ x_flagged' = done.flagged
                  /\ x_stats' = done.stats
    /\ pc' = "executed"
    /\ UNCHANGED <<title_memo, variant, entries, all_groups, group_id, processed_ids, loop_i, run, report, x_auto_flag, normVars, simVars, langVars, compVars, seriesVars, kidsVars, coreVars, dedupVars, batchVars>>

\* check_authors_with_many_recommendations on the groups of one author: the
\* auto-flag loop and its commit
AutoFlag ==
    /\ pc = "returned"
    /\ run = 1
    /\ variant = "rec"
    /\ \E dry_run, auto_flag, commit_fails \in BOOLEAN :
           LET flagging == ~dry_run /\ auto_flag /\ Len(all_groups) > 0
           IN  /\ commit_fails => flagging
               /\ x_dry_run' = dry_run
               /\ x_auto_flag' = auto_flag
               /\ x_failing' = IF commit_fails THEN {1} ELSE {}
               /\ report' = IF flagging THEN KeepReport(all_groups, variant) ELSE <<>>
               /\ x_flagged' = IF flagging /\ ~commit_fails
                               THEN RemoveTagged(KeepReport(all_groups, variant)) ELSE {}
    /\ pc' = "flagged"
    /\ UNCHANGED <<title_memo, variant, entries, all_groups, group_id, processed_ids, loop_i, run, x_deleted, x_stats, normVars, simVars, langVars, compVars, seriesVars, kidsVars, coreVars, dedupVars, batchVars>>

Next ==
    \/ GroupExact
    \/ GroupBase
    \/ GroupIsbn
    \/ GroupFuzzy
    \/ GroupSubstring
    \/ SelectKeep
    \/ RemoveAndRegroup
    \/ ExecuteDeduplication
    \/ AutoFlag

Spec == Init /\ [][Next]_vars

----------------------------------------------------------------------------
(* The title normalizer applied to a title, and to its own result          *)

\* the largest number of fragments in a title handed to the normalizer
MaxTokens == 3

\* title fragments: articles, a plain word, and the markers the normalizer strips
NormTokens ==
    { <<"T","h","e"," ">>,
      <<"A"," ">>,
      <<"a","n"," ">>,
      <<"R","u","b","y">>,
      <<" ","(","S","e","r","i","e","s"," ","#","1",")">>,
      <<" ","V","o","l","."," ","2">>,
      <<" ","[","1","/","2","]">>,
      <<"v","o","l","u","m","e"," ">>,
      <<"'","s"," ">> }

RECURSIVE Concat(_)
Concat(parts) == IF parts = <<>> THEN <<>> ELSE Head(parts) \o Concat(Tail(parts))

NormTitles == {Concat(ps) : ps \in UNION {[1..n -> NormTokens] : n \in 0..MaxTokens}}

InitNorm ==
    /\ n_title \in NormTitles
    /\ n_once = <<>>
    /\ n_twice = <<>>
    /\ n_pc = "start"
    /\ IdleGroup
    /\ IdleSim
    /\ IdleLang
    /\ IdleComp
    /\ IdleSeries
    /\ IdleKids
    /\ IdleCore
    /\ IdleExec
    /\ IdleDedup
    /\ IdleBatch

NormalizeOnce ==
    /\ n_pc = "start"
    /\ n_once' = normalize_title_advanced(n_title)
    /\ n_pc' = "once"
    /\ UNCHANGED <<n_title, n_twice, groupVars, simVars, langVars, compVars, seriesVars, kidsVars, coreVars, execVars, dedupVars, batchVars>>

NormalizeTwice ==
    /\ n_pc = "once"
    /\ n_twice' = normalize_title_advanced(n_once)
    /\ n_pc' = "twice"
    /\ UNCHANGED <<n_title, n_once, groupVars, simVars, langVars, compVars, seriesVars, kidsVars, coreVars, execVars, dedupVars, batchVars>>

NextNorm ==
    \/ NormalizeOnce
    \/ NormalizeTwice

SpecNorm == InitNorm /\ [][NextNorm]_vars

----------------------------------------------------------------------------
(* The similarity scorer applied to a pair of strings, in both orders      *)

\* the longest string handed to the scorer
MaxStrLen == 3

SimAlphabet == {"a", "b"}

SimStrings == UNION {[1..n -> SimAlphabet] : n \in 0..MaxStrLen}

InitSim ==
    /\ s_a \in SimStrings
    /\ s_b \in SimStrings
    /\ s_dist = <<0, 0>>
    /\ s_sim = <<Frac(0, 1), Frac(0, 1)>>
    /\ s_pc = "start"
    /\ IdleGroup
    /\ IdleNorm
    /\ IdleLang
    /\ IdleComp
    /\ IdleSeries
    /\ IdleKids
    /\ IdleCore
    /\ IdleExec
    /\ IdleDedup
    /\ IdleBatch

ScoreBothWays ==
    /\ s_pc = "start"
    /\ s_dist' = <<levenshtein_distance(s_a, s_b), levenshtein_distance(s_b, s_a)>>
    /\ s_sim' = <<similarity_score(s_a, s_b), similarity_score(s_b, s_a)>>
    /\ s_pc' = "scored"
    /\ UNCHANGED <<s_a, s_b, groupVars, normVars, langVars, compVars, seriesVars, kidsVars, coreVars, execVars, dedupVars, batchVars>>

NextSim == ScoreBothWays

SpecSim == InitSim /\ [][NextSim]_vars

----------------------------------------------------------------------------
(* The language classifier on titles put together from a few parts         *)

\* the most parts a title is put together from
MaxLangTokens == 2

LangTokens ==
    {<<"CJK">>, <<"s", "h", "e", "l", " ">>, <<"(", "F", "r", "e", "n", "c", "h", " ", "E", "d", "i", "t", "i", "o", "n", ")">>, <<"[", "G", "e", "r", "m", "a", "n", "]", " ">>, <<"S", "p", "a", "n", "i", "s", "h", " ", "E", "d", "i", "t", "i", "o", "n", " ">>, <<"L", "i", "b", "r", "o", " ">>,
     <<"H", "o", "u", "s", "e", " ", "E", "d", "i", "t", "i", "o", "n", " ">>, <<"INV_QUESTION">>, <<"ESZETT">>, <<"C", "a", "f", "E_ACUTE", " ">>, <<"E_ACUTE", "E_ACUTE">>, <<"X", "j", "u", "s", "t", " ">>, <<"M", "c", "C", "o", "y", " ">>, <<"L", "e", " ", "M", "o", "r", "t", "e", " ">>,
     <<"T", "h", "e", " ", "G", "r", "e", "a", "t", " ">>, <<"G", "a", "t", "s", "b", "y">>}

LangTitles ==
    {Concat(parts) : parts \in UNION {[1..n -> LangTokens] : n \in 0..MaxLangTokens}}

InitLang ==
    /\ l_title \in LangTitles
    /\ l_verdict = FALSE
    /\ l_reasons = <<>>
    /\ l_pc = "start"
    /\ IdleGroup
    /\ IdleNorm
    /\ IdleSim
    /\ IdleComp
    /\ IdleSeries
    /\ IdleKids
    /\ IdleCore
    /\ IdleExec
    /\ IdleDedup
    /\ IdleBatch

Classify ==
    /\ l_pc = "start"
    /\ l_verdict' = detect_non_english_title(l_title)[1]
    /\ l_reasons' = detect_non_english_title(l_title)[2]
    /\ l_pc' = "classified"
    /\ UNCHANGED <<l_title, groupVars, normVars, simVars, compVars, seriesVars, kidsVars, coreVars, execVars, dedupVars, batchVars>>

NextLang == Classify

SpecLang == InitLang /\ [][NextLang]_vars

----------------------------------------------------------------------------
(* find_composite_standalone_matches on a catalog: one book whose title is *)
(* put together from a few parts, or a short list of catalog books         *)

\* the most parts the title of a single book is put together from
MaxCompTokens == 3

\* the longest catalog of several books
MaxCatalog == 3

CompTokens ==
    {<<"T", "h", "e", " ", "S", "e", "c", "r", "e", "t">>, <<"/", "T", "h", "e", " ", "R", "e", "v", "e", "a", "l", "i", "n", "g">>, <<"/", "T", "h", "e", " ", "W", "h", "a", "t", "e", "v", "e", "r">>, <<" ", "/", " ">>, <<"|">>, <<"A", "b">>, <<"A", "b", " ", "/", " ">>, <<"B", "o", "o", "k", "s", " ", "1", "-", "5">>,
     <<" ", "&", " ">>, <<"B", "o", "x", "e", "d", " ", "S", "e", "t">>, <<" ", "|", " ", "O", "m", "n", "i", "b", "u", "s">>, <<"V", "o", "l", "u", "m", "e", "s", " ", "1", " ", "EN_DASH", " ", "3">>, <<"P", "r", "i", "d", "e">>}

CompTitles ==
    {Concat(parts) : parts \in UNION {[1..n -> CompTokens] : n \in 0..MaxCompTokens}}

Catalogs ==
    {<<[title |-> t, series_name |-> <<>>, series_position |-> p]>> :
        t \in CompTitles, p \in {0, 1}}
    \cup UNION {[1..n -> Range(CompFixtures)] : n \in 0..MaxCatalog}

InitComp ==
    /\ comp_memo = CompMemo
    /\ c_catalog \in Catalogs
    /\ c_composite_books = <<>>
    /\ c_standalone_books = <<>>
    /\ c_matches = <<>>
    /\ c_pc = "start"
    /\ IdleGroup
    /\ IdleNorm
    /\ IdleSim
    /\ IdleLang
    /\ IdleSeries
    /\ IdleKids
    /\ IdleCore
    /\ IdleExec
    /\ IdleDedup
    /\ IdleBatch

FindMatches ==
    /\ c_pc = "start"
    /\ c_composite_books' = CompositeBooks(c_catalog)
    /\ c_standalone_books' = StandaloneBooks(c_catalog)
    /\ c_matches' = find_composite_standalone_matches(c_catalog)
    /\ c_pc' = "matched"
    /\ UNCHANGED <<comp_memo, c_catalog, groupVars, normVars, simVars, langVars, seriesVars, kidsVars, coreVars, execVars, dedupVars, batchVars>>

NextComp == FindMatches

SpecComp == InitComp /\ [][NextComp]_vars

----------------------------------------------------------------------------
(* find_series_consolidations called twice on the books of one author, the *)
(* second time with the books in another order                             *)

\* the most books of the author that are in a series
MaxSeriesBooks == 3

SeriesCatalogs == UNION {[1..n -> Range(SeriesFixtures)] : n \in 0..MaxSeriesBooks}

\* the lists that hold the same books in another order
Reorderings(books) ==
    LET n == Len(books)
    IN  {[k \in 1..n |-> books[f[k]]] :
            f \in {g \in [1..n -> 1..n] : \A a, b \in 1..n : a # b => g[a] # g[b]}}

InitSeries ==
    /\ series_memo = SeriesMemo
    /\ r_books \in SeriesCatalogs
    /\ r_first = <<>>
    /\ r_again = <<>>
    /\ r_second = <<>>
    /\ r_pc = "start"
    /\ r_dry_run = TRUE
    /\ r_counts = <<>>
    /\ r_after = <<>>
    /\ r_third = <<>>
    /\ IdleGroup
    /\ IdleNorm
    /\ IdleSim
    /\ IdleLang
    /\ IdleComp
    /\ IdleKids
    /\ IdleCore
    /\ IdleExec
    /\ IdleDedup
    /\ IdleBatch

Consolidate ==
    /\ r_pc = "start"
    /\ \E walk \in Walks(r_books) : r_first' = find_series_consolidations(r_books, walk)
    /\ r_pc' = "once"
    /\ UNCHANGED <<series_memo, r_books, r_again, r_second, r_dry_run, r_counts, r_after, r_third, groupVars, normVars, simVars, langVars, compVars, kidsVars, coreVars, execVars, dedupVars, batchVars>>

ConsolidateAgain ==
    /\ r_pc = "once"
    /\ \E books \in Reorderings(r_books) :
           /\ r_again' = books
           /\ \E walk \in Walks(books) : r_second' = find_series_consolidations(books, walk)
    /\ r_pc' = "twice"
    /\ UNCHANGED <<series_memo, r_books, r_first, r_dry_run, r_counts, r_after, r_third, groupVars, normVars, simVars, langVars, compVars, kidsVars, coreVars, execVars, dedupVars, batchVars>>

\* variant of ExecuteConsolidations: the books are renamed in a dry run too
ExecuteConsolidationsLive ==
    /\ r_pc = "once"
    /\ \E dry_run \in BOOLEAN :
           /\ r_dry_run' = dry_run
           /\ LET done == ConsolidateFrom(r_first, 1, r_books, <<>>, FALSE)
              IN  r_after' = done.catalog_books /\ r_counts' = done.counts
    /\ r_pc' = "executed"
    /\ UNCHANGED <<series_memo, r_books, r_first, r_again, r_second, r_third, groupVars, normVars, simVars, langVars, compVars, kidsVars, coreVars, execVars, dedupVars, batchVars>>

\* execute_consolidation for every consolidation of the first call
ExecuteConsolidations ==
    /\ r_pc = "once"
    /\ \E dry_run \in BOOLEAN :
           /\ r_dry_run' = dry_run
           /\ LET done == ConsolidateFrom(r_first, 1, r_books, <<>>, dry_run)
              IN  r_after' = done.catalog_books /\ r_counts' = done.counts
    /\ r_pc' = "executed"
    /\ UNCHANGED <<series_memo, r_books, r_first, r_again, r_second, r_third, groupVars, normVars, simVars, langVars, compVars, kidsVars, coreVars, execVars, dedupVars, batchVars>>

\* find_series_consolidations on the catalog books as they are now
ConsolidateAfter ==
    /\ r_pc = "executed"
    /\ \E walk \in Walks(r_after) : r_third' = find_series_consolidations(r_after, walk)
    /\ r_pc' = "rechecked"
    /\ UNCHANGED <<series_memo, r_books, r_first, r_again, r_second, r_dry_run, r_counts, r_after, groupVars, normVars, simVars, langVars, compVars, kidsVars, coreVars, execVars, dedupVars, batchVars>>

NextSeries == Consolidate \/ ConsolidateAgain \/ ExecuteConsolidations \/ ConsolidateAfter

SpecSeries == InitSeries /\ [][NextSeries]_vars

----------------------------------------------------------------------------
(* is_childrens_book on a catalog book whose title is put together from a  *)
(* few parts                                                               *)

\* the most parts a title is put together from
MaxKidsTokens == 2

KidsTokens ==
    {<<"T", "h", "e", " ", "M", "y", "s", "t", "e", "r", "y", " ">>, <<"K", "i", "d", "s", " ">>, <<"C", "u", "l", "-", "d", "e", "-", "S", "a", "c", " ", "K", "i", "d", "s", " ">>, <<"G", "o", "o", "s", "e", "b", "u", "m", "p", "s", " ">>, <<"J", "u", "n", "i", "o", "r", " ", "F", "i", "c", "t", "i", "o", "n", " ">>, <<"(", "A", "g", "e", "s", " ", "8", "-", "1", "2", ")", " ">>}

KidsTitles ==
    {Concat(parts) : parts \in UNION {[1..n -> KidsTokens] : n \in 0..MaxKidsTokens}}

KidsBooks ==
    [title : KidsTitles,
     series_name : {<<>>, <<"C", "u", "l", "-", "d", "e", "-", "S", "a", "c", " ", "K", "i", "d", "s">>, <<"G", "o", "o", "s", "e", "b", "u", "m", "p", "s">>},
     categories : {<<"F", "i", "c", "t", "i", "o", "n", ",", " ", "R", "o", "m", "a", "n", "c", "e">>, <<"J", "u", "v", "e", "n", "i", "l", "e", " ", "F", "i", "c", "t", "i", "o", "n">>},
     description : {<<>>, <<"A", " ", "s", "t", "o", "r", "y", " ", "f", "o", "r", " ", "c", "h", "i", "l", "d", "r", "e", "n">>}]

InitKids ==
    /\ k_book \in KidsBooks
    /\ k_verdict = FALSE
    /\ k_reasons = <<>>
    /\ k_pc = "start"
    /\ IdleGroup
    /\ IdleNorm
    /\ IdleSim
    /\ IdleLang
    /\ IdleComp
    /\ IdleSeries
    /\ IdleCore
    /\ IdleExec
    /\ IdleDedup
    /\ IdleBatch

ClassifyBook ==
    /\ k_pc = "start"
    /\ k_verdict' = is_childrens_book(k_book)[1]
    /\ k_reasons' = is_childrens_book(k_book)[2]
    /\ k_pc' = "classified"
    /\ UNCHANGED <<k_book, groupVars, normVars, simVars, langVars, compVars, seriesVars, coreVars, execVars, dedupVars, batchVars>>

NextKids == ClassifyBook

SpecKids == InitKids /\ [][NextKids]_vars

----------------------------------------------------------------------------
(* The core functions applied, one after the other, to one title put       *)
(* together from a few parts, the empty title among them                   *)

\* the most parts a title is put together from
MaxCoreTokens == 2

CoreTokens ==
    {<<"W", "h", "a", "t", " ", "C", "o", "m", "e", "s", " ", "M", "y", " ", "W", "a", "y", " ">>, <<"(", "B", "r", "o", "o", "k", "s", "t", "o", "n", "e", " ", "B", "r", "i", "d", "e", "s", " ", "B", "o", "o", "k", " ", "#", "3", ")">>, <<"(", "A", " ", "N", "o", "v", "e", "l", ")", " ">>, <<"(", "D", "u", "n", "e", " ", "#", "2", ")">>,
     <<"(", "a", "b", " ", "7", ")", " ">>, <<"(", ")">>}

CoreTitles ==
    {Concat(parts) : parts \in UNION {[1..n -> CoreTokens] : n \in 0..MaxCoreTokens}}

InitCore ==
    /\ e_title \in CoreTitles
    /\ e_other \in {<<>>, <<"d", "u", "n", "e">>}
    /\ e_done = {}
    /\ e_norm = <<>>
    /\ e_base = <<>>
    /\ e_series = <<>>
    /\ e_lang = <<>>
    /\ e_sim = <<>>
    /\ IdleGroup
    /\ IdleNorm
    /\ IdleSim
    /\ IdleLang
    /\ IdleComp
    /\ IdleSeries
    /\ IdleKids
    /\ IdleExec
    /\ IdleDedup
    /\ IdleBatch

NormalizeTitle ==
    /\ e_done = {}
    /\ e_norm' = normalize_title_advanced(e_title)
    /\ e_done' = e_done \cup {"normalize_title_advanced"}
    /\ UNCHANGED <<e_title, e_other, e_base, e_series, e_lang, e_sim, groupVars, normVars, simVars, langVars, compVars, seriesVars, kidsVars, execVars, dedupVars, batchVars>>

BaseTitle ==
    /\ e_done = {"normalize_title_advanced"}
    /\ e_base' = extract_base_title(e_title)
    /\ e_done' = e_done \cup {"extract_base_title"}
    /\ UNCHANGED <<e_title, e_other, e_norm, e_series, e_lang, e_sim, groupVars, normVars, simVars, langVars, compVars, seriesVars, kidsVars, execVars, dedupVars, batchVars>>

ExtractSeries ==
    /\ e_done = {"normalize_title_advanced", "extract_base_title"}
    /\ e_series' = extract_series_from_title(e_title)
    /\ e_done' = e_done \cup {"extract_series_from_title"}
    /\ UNCHANGED <<e_title, e_other, e_norm, e_base, e_lang, e_sim, groupVars, normVars, simVars, langVars, compVars, seriesVars, kidsVars, execVars, dedupVars, batchVars>>

DetectLanguage ==
    /\ e_done = {"normalize_title_advanced", "extract_base_title", "extract_series_from_title"}
    /\ e_lang' = detect_non_english_title(e_title)
    /\ e_done' = e_done \cup {"detect_non_english_title"}
    /\ UNCHANGED <<e_title, e_other, e_norm, e_base, e_series, e_sim, groupVars, normVars, simVars, langVars, compVars, seriesVars, kidsVars, execVars, dedupVars, batchVars>>

ScoreSimilarity ==
    /\ e_done = {"normalize_title_advanced", "extract_base_title", "extract_series_from_title", "detect_non_english_title"}
    /\ e_sim' = <<similarity_score(e_title, e_other), similarity_score(e_other, e_title)>>
    /\ e_done' = e_done \cup {"similarity_score"}
    /\ UNCHANGED <<e_title, e_other, e_norm, e_base, e_series, e_lang, groupVars, normVars, simVars, langVars, compVars, seriesVars, kidsVars, execVars, dedupVars, batchVars>>

NextCore == NormalizeTitle \/ BaseTitle \/ ExtractSeries \/ DetectLanguage \/ ScoreSimilarity

SpecCore == InitCore /\ [][NextCore]_vars

----------------------------------------------------------------------------
(* remove_duplicate_titles called, once or again, on a small database      *)

\* the most catalog books of the database
MaxDedupCatalog == 3

\* the most calls in a row
MaxDedupRuns == 2

InitDedup ==
    /\ dedup_memo = DedupMemo
    /\ d_catalog \in {c \in SUBSET CatalogRows : Cardinality(c) <= MaxDedupCatalog}
    /\ d_books \in SUBSET BookRows
    /\ d_log = <<>>
    /\ IdleGroup
    /\ IdleNorm
    /\ IdleSim
    /\ IdleLang
    /\ IdleComp
    /\ IdleSeries
    /\ IdleKids
    /\ IdleCore
    /\ IdleExec
    /\ IdleBatch

\* one call; the log keeps its arguments, the tables before it and its stats
RemoveDuplicateTitles ==
    /\ Len(d_log) < MaxDedupRuns
    /\ d_catalog # {} \/ d_books # {}
    /\ \E dry_run, commit_raises \in BOOLEAN :
           /\ commit_raises => ~dry_run
           /\ \E done \in {remove_duplicate_titles(d_catalog, d_books, dry_run, commit_raises)} :
                  /\ d_catalog' = done.catalog
                  /\ d_books' = done.books
                  /\ d_log' = Append(d_log, [dry_run |-> dry_run, commit_raises |-> commit_raises,
                                             catalog |-> d_catalog, books |-> d_books,
                                             stats |-> done.stats])
    /\ UNCHANGED <<dedup_memo, groupVars, normVars, simVars, langVars, compVars, seriesVars, kidsVars, coreVars, execVars, batchVars>>

NextDedup == RemoveDuplicateTitles

SpecDedup == InitDedup /\ [][NextDedup]_vars

----------------------------------------------------------------------------
(* process_catalog_books run once or again on a small table; every commit  *)
(* attempt of the batch loop is a step whose outcome the database decides  *)

\* batch_size of the commit loop, scaled down from the 50 of the code
BatchSize == 2

\* the most catalog books of the table
MaxBatchBooks == 3

\* the most runs in a row
MaxBatchRuns == 2

\* a book whose title names a series, one whose title names none, and one
\* that has its series_name already
BatchRows ==
    {[title |-> <<"C", "h", "i", "l", "d", "r", "e", "n", " ", "(", "D", "u", "n", "e", " ", "#", "3", ")">>, series_name |-> <<>>, series_position |-> -1],
     [title |-> <<"E", "m", "m", "a">>, series_name |-> <<>>, series_position |-> -1],
     [title |-> <<"M", "o", "r", "t", " ", "(", "D", "i", "s", "c", "w", "o", "r", "l", "d", " ", "#", "4", ")">>, series_name |-> <<"D", "i", "s", "c", "w", "o", "r", "l", "d">>, series_position |-> 4]}

\* limit and offset of a run
BatchRanges == {<<0, 0>>, <<BatchSize, 0>>, <<0, 1>>}

InitBatch ==
    /\ b_catalog \in UNION {[1..n -> BatchRows] : n \in 1..MaxBatchBooks}
    /\ b_pc = "ready"
    /\ b_run = 0
    /\ b_args = <<>>
    /\ b_pending = <<>>
    /\ b_batch_start = 0
    /\ b_retry_count = 0
    /\ b_committed = 0
    /\ b_attempts = <<>>
    /\ b_prev = <<>>
    /\ IdleGroup
    /\ IdleNorm
    /\ IdleSim
    /\ IdleLang
    /\ IdleComp
    /\ IdleSeries
    /\ IdleKids
    /\ IdleCore
    /\ IdleExec
    /\ IdleDedup

\* the ids of the books whose batch was committed by the running call
UpdatedIds ==
    UNION {{b_attempts[k].batch[j].book : j \in 1..Len(b_attempts[k].batch)} :
               k \in {a \in 1..Len(b_attempts) : b_attempts[a].outcome = "ok"}}

\* process_catalog_books up to the commit loop: the test connection, the query
\* and the scan that fills pending_updates
StartRun ==
    /\ b_pc \in {"ready", "closed", "raised"}
    /\ b_run < MaxBatchRuns
    /\ \E dry_run, locked \in BOOLEAN, range \in BatchRanges :
           /\ locked => ~dry_run
           /\ b_args' = [dry_run |-> dry_run, locked |-> locked, limit |-> range[1],
                         offset |-> range[2], catalog |-> b_catalog]
           /\ b_pending' = IF dry_run \/ locked THEN <<>>
                           ELSE pending_updates(b_catalog, range[1], range[2])
           /\ b_pc' = IF Len(b_pending') > 0 THEN "commit" ELSE "closed"
    /\ b_prev' = IF b_run = 0 THEN <<>>
                 ELSE [updated |-> UpdatedIds \cup (IF b_prev = <<>> THEN {} ELSE b_prev.updated),
                       complete |-> /\ ~b_args.dry_run /\ ~b_args.locked
                                    /\ b_committed = Len(b_pending),
                       committed |-> b_committed,
                       limit |-> b_args.limit, offset |-> b_args.offset]
    /\ b_run' = b_run + 1
    /\ b_batch_start' = 0
    /\ b_retry_count' = 0
    /\ b_committed' = 0
    /\ b_attempts' = <<>>
    /\ UNCHANGED <<b_catalog, groupVars, normVars, simVars, langVars, compVars, seriesVars, kidsVars, coreVars, execVars, dedupVars>>

\* a commit attempt on the batch at batch_start is under way
Attempt(outcome) ==
    /\ b_pc = "commit"
    /\ b_attempts' = Append(b_attempts,
                            [batch_start |-> b_batch_start,
                             batch |-> batch_of(b_pending, b_batch_start, BatchSize),
                             outcome |-> outcome])
    /\ UNCHANGED <<b_run, b_args, b_pending, b_prev, groupVars, normVars, simVars, langVars, compVars, seriesVars, kidsVars, coreVars, execVars, dedupVars>>

\* session.commit() succeeds: the next batch, or the end of the loop
CommitOk ==
    /\ Attempt("ok")
    /\ b_catalog' = apply_batch(b_catalog, batch_of(b_pending, b_batch_start, BatchSize))
    /\ b_committed' = b_committed + Len(batch_of(b_pending, b_batch_start, BatchSize))
    /\ b_batch_start' = b_batch_start + BatchSize
    /\ b_retry_count' = 0
    /\ b_pc' = IF b_batch_start + BatchSize < Len(b_pending) THEN "commit" ELSE "closed"

\* session.commit() raises 'database is locked': rollback and retry, or
\* give up after max_retries attempts
CommitLocked ==
    /\ Attempt("locked")
    /\ b_retry_count' = b_retry_count + 1
    /\ b_pc' = IF may_retry(b_retry_count + 1) THEN "commit" ELSE "closed"
    /\ UNCHANGED <<b_catalog, b_committed, b_batch_start>>

\* session.commit() raises another OperationalError, which is raised again
CommitRaises ==
    /\ Attempt("operational")
    /\ b_pc' = "raised"
    /\ UNCHANGED <<b_catalog, b_committed, b_batch_start, b_retry_count>>

\* session.commit() raises any other exception: rollback and break
CommitError ==
    /\ Attempt("error")
    /\ b_pc' = "closed"
    /\ UNCHANGED <<b_catalog, b_committed, b_batch_start, b_retry_count>>

CommitBatch == CommitOk \/ CommitLocked \/ CommitRaises \/ CommitError

NextBatch == StartRun \/ CommitOk \/ CommitLocked \/ CommitRaises \/ CommitError

SpecBatch == InitBatch /\ [][NextBatch]_vars

\* the commit loop is sequential code that sleeps at most 10 seconds between
\* two attempts: an attempt that is due is made
SpecBatchLive == SpecBatch /\ WF_vars(CommitBatch)

----------------------------------------------------------------------------
(* The handlers that take dry_run, each on its own database: the grouper   *)
(* with execute_deduplication and the auto-flag loop, remove_duplicate_    *)
(* titles, and execute_consolidation                                       *)

InitDry == Init \/ InitDedup \/ InitSeries

NextDry ==
    \/ GroupExact
    \/ GroupBase
    \/ GroupIsbn
    \/ GroupFuzzy
    \/ GroupSubstring
    \/ SelectKeep
    \/ RemoveAndRegroup
    \/ ExecuteDeduplication
    \/ AutoFlag
    \/ RemoveDuplicateTitles
    \/ Consolidate
    \/ ConsolidateAgain
    \/ ExecuteConsolidations
    \/ ConsolidateAfter

SpecDry == InitDry /\ [][NextDry]_vars

----------------------------------------------------------------------------
(* Properties                                                              *)

GroupMembers(g) == Range(all_groups[g].members)

Injective(seq) == \A a, b \in 1..Len(seq) : a # b => seq[a] # seq[b]

\* C1: in the groups returned by one call of find_duplicate_groups or
\* find_catalog_duplicates no entry is a member of two different groups
C1_NoEntryInTwoGroups ==
    pc = "returned" =>
        \A g, h \in 1..Len(all_groups) : g # h => GroupMembers(g) \cap GroupMembers(h) = {}

\* C2: dedupe is idempotent: once the groups are computed, a keep member is
\* chosen in each and every remove-tagged member is removed, the grouping of
\* the survivors returns no group
C2_DedupeIdempotent ==
    (run = 2 /\ pc = "returned") => all_groups = <<>>

\* C3: every group has at least two members and lists no entry twice, and the
\* keep-selection names exactly one member of a group keep and tags every
\* other member of it remove
C3_GroupsWellFormed ==
    /\ \A g \in 1..Len(all_groups) :
          Len(all_groups[g].members) >= 2 /\ Injective(all_groups[g].members)
    /\ pc = "analyzed" =>
          /\ Len(report) = Len(all_groups)
          /\ \A g \in 1..Len(report) :
                /\ report[g].keep \in GroupMembers(g)
                /\ Range(report[g].remove) = GroupMembers(g) \ {report[g].keep}
                /\ Len(report[g].remove) = Len(all_groups[g].members) - 1

\* C3 witness: the members of a group of three are tagged
C3_Witness ==
    pc = "analyzed" /\ \E g \in 1..Len(all_groups) : Len(all_groups[g].members) >= 3

\* C4: the kept member of every group has the maximum completeness score of
\* the group and, among the members tied at that maximum, the lowest id,
\* whatever the order of the list
C4_KeepIsBestLowestId ==
    pc = "analyzed" =>
        \A g \in 1..Len(report) :
            \A m \in GroupMembers(g) :
                /\ Score(m, variant, report[g].flagged)
                       <= Score(report[g].keep, variant, report[g].flagged)
                /\ Score(m, variant, report[g].flagged)
                       = Score(report[g].keep, variant, report[g].flagged) => report[g].keep <= m

\* C5: a grouping call never modifies its input: the list keeps its records,
\* their field values, its length and its order through every step of the call
C5_GrouperLeavesInput ==
    [][(pc \in {"exact", "base", "isbn", "fuzzy", "substring"}) => (entries' = entries)]_vars

\* C5 witness: a call on three or more records has returned groups
C5_Witness ==
    pc = "returned" /\ run = 1 /\ Len(entries) >= 3 /\ all_groups # <<>>

\* two records match by some signal: exact, base, ISBN, fuzzy or substring
AnySignal(r1, r2) ==
    \/ NormKey(r1) # <<>> /\ NormKey(r1) = NormKey(r2)
    \/ BaseKey(r1) # <<>> /\ BaseKey(r1) = BaseKey(r2)
    \/ IsbnKey(r1) # <<>> /\ IsbnKey(r1) = IsbnKey(r2)
    \/ title_memo.fuzzy[<<r1.title, r2.title>>] \/ title_memo.fuzzy[<<r2.title, r1.title>>]
    \/ title_memo.substring[<<r1.title, r2.title>>] \/ title_memo.substring[<<r2.title, r1.title>>]

\* a record that matches no other record of the list is in no group
UnmatchedUngrouped ==
    \A i \in 1..Len(entries) :
        (\A j \in 1..Len(entries) : j # i => ~AnySignal(entries[i], entries[j]))
            => entries[i].id \notin GroupedIds(all_groups)

\* 'Ruby', 'Ruby (Red River Valley)', 'Gone With The Wind'
RubyExample == <<Fixtures[5], Fixtures[6], Fixtures[7]>>

\* the example list gives exactly one group, holding its first two records
RubyExampleGrouped ==
    entries = RubyExample =>
        Len(all_groups) = 1 /\ all_groups[1].members = <<5, 6>>

\* another record of the list has the same normalized title as entries[i]
HasExactTwin(i) ==
    \E j \in 1..Len(entries) :
        j # i /\ NormKey(entries[i]) # <<>> /\ NormKey(entries[j]) = NormKey(entries[i])

\* C6 as stated: any two records with equal, non-empty lower-cased base titles
\* are members of a common group; a record that matches no other record is in
\* no group; the example list gives one group of its first two records
C6_BaseTitlePairsGrouped ==
    pc = "returned" =>
        /\ \A i, j \in 1..Len(entries) :
              (i # j /\ BaseKey(entries[i]) # <<>> /\ BaseKey(entries[i]) = BaseKey(entries[j]))
                  => InSameGroup(all_groups, entries[i].id, entries[j].id)
        /\ UnmatchedUngrouped
        /\ RubyExampleGrouped

\* C6 amended: any two records with equal, non-empty lower-cased base titles,
\* neither of which shares its normalized title with another record of the
\* list, are members of a common group; a record that matches no other record
\* is in no group; the example list gives one group of its first two records
C6_BaseTitlePairsGroupedUnlessExact ==
    pc = "returned" =>
        /\ \A i, j \in 1..Len(entries) :
              (/\ i # j /\ BaseKey(entries[i]) # <<>> /\ BaseKey(entries[i]) = BaseKey(entries[j])
               /\ ~HasExactTwin(i) /\ ~HasExactTwin(j))
                  => InSameGroup(all_groups, entries[i].id, entries[j].id)
        /\ UnmatchedUngrouped
        /\ RubyExampleGrouped

\* C6 witness: the example list, grouped: the first two records share a base
\* title and a group, the third matches nothing and is in no group
C6_Witness ==
    /\ pc = "returned"
    /\ entries = RubyExample
    /\ InSameGroup(all_groups, 5, 6)
    /\ 7 \notin GroupedIds(all_groups)

\* the members of group g all have the bucket key of its layer in common
SameBucket(g) ==
    \A m, n \in GroupMembers(g) :
        IF all_groups[g].kind = "base"
        THEN BaseKey(Fixtures[m]) # <<>> /\ BaseKey(Fixtures[m]) = BaseKey(Fixtures[n])
        ELSE IsbnKey(Fixtures[m]) # <<>> /\ IsbnKey(Fixtures[m]) = IsbnKey(Fixtures[n])

\* C7: the base-title layer and the ISBN layer only group entries that no
\* earlier group of the call contains, and emit a bucket only if at least two
\* such entries remain in it
C7_LayersSkipGrouped ==
    pc \in {"isbn", "fuzzy"} =>
        \A g \in 1..Len(all_groups) :
            all_groups[g].kind \in {"base", "isbn"} =>
                /\ Len(all_groups[g].members) >= 2
                /\ SameBucket(g)
                /\ \A h \in 1..(g - 1) : GroupMembers(g) \cap GroupMembers(h) = {}

\* C7 witness: an ISBN group was emitted from a bucket that also held a
\* record of an earlier group
C7_Witness ==
    /\ pc = "fuzzy"
    /\ \E g \in 1..Len(all_groups) :
          /\ all_groups[g].kind = "isbn"
          /\ \E i \in 1..Len(entries) :
                /\ entries[i].id \notin GroupMembers(g)
                /\ IsbnKey(entries[i]) = IsbnKey(Fixtures[all_groups[g].members[1]])

\* the link of the substring layer as the claim words it, on two titles
ClaimLinked(t1, t2) ==
    LET base1 == Strip(Lower(extract_base_title(t1)))
        base2 == Strip(Lower(extract_base_title(t2)))
        short == IF Len(base1) <= Len(base2) THEN base1 ELSE base2
        long  == IF Len(base1) <= Len(base2) THEN base2 ELSE base1
    IN  \/ base1 = base2
        \/ /\ Contains(long, short)
           /\ Len(long) - Len(short) < 30
           /\ Len(short) >= 3

\* seq1 is seq2 up to the length of seq1
IsPrefix(seq1, seq2) == Len(seq1) <= Len(seq2) /\ SubSeq(seq2, 1, Len(seq1)) = seq1

\* one iteration of the substring loop, on rec1 = entries[loop_i]: linked is
\* the set of rec1 and the records linked to it
SubstringStepOK ==
    LET rec1    == entries[loop_i]
        hits    == processed_ids' \ processed_ids
        linked  == {rec1.id} \cup hits
        old     == all_groups
        new     == all_groups'
        sharing == {g \in 1..Len(old) : Range(old[g].members) \cap linked # {}}
    IN  /\ \A m \in hits : ClaimLinked(rec1.title, Fixtures[m].title)
        /\ IF hits = {} THEN new = old
           ELSE IF sharing # {}
           THEN /\ Len(new) = Len(old)
                /\ \E g \in sharing :
                      /\ IsPrefix(old[g].members, new[g].members)
                      /\ Range(new[g].members) = Range(old[g].members) \cup linked
                      /\ Len(new[g].members) = Cardinality(Range(new[g].members))
                      /\ \A h \in 1..Len(old) : h # g => new[h] = old[h]
           ELSE /\ Len(new) = Len(old) + 1
                /\ SubSeq(new, 1, Len(old)) = old
                /\ new[Len(new)].kind = "substring"
                /\ Range(new[Len(new)].members) = linked

\* C8: the substring layer links two entries only if their lower-cased base
\* titles are equal, or one is within the other with a length difference below
\* 30 and the shorter at least 3 long; a linked set that shares a member with
\* an existing group goes into that group and makes no new group, any other
\* linked set makes exactly one new group
C8_SubstringLayer ==
    [][(pc = "substring") => SubstringStepOK]_vars

\* C8 witness: the substring layer has put a record without ISBN into an
\* ISBN group
C8_Witness ==
    /\ pc = "returned"
    /\ \E g \in 1..Len(all_groups) :
          all_groups[g].kind = "isbn" /\ \E m \in GroupMembers(g) : Fixtures[m].isbn = <<>>

\* C9: normalize_title_advanced is idempotent: normalizing the normalized form
\* returns the same string
C9_NormalizeIdempotent ==
    n_pc = "twice" => n_twice = n_once

\* C10: similarity_score and levenshtein_distance are symmetric
C10_Symmetric ==
    s_pc = "scored" => s_sim[1] = s_sim[2] /\ s_dist[1] = s_dist[2]

\* C10 witness: two different strings of the same length are scored
C10_Witness ==
    s_pc = "scored" /\ Len(s_a) = Len(s_b) /\ Len(s_a) >= 2 /\ s_a # s_b /\ s_dist[1] >= 2

\* a similarity value f = <<n, d>> lies in [0, 1]
InUnitInterval(f) == f[2] > 0 /\ 0 <= f[1] /\ f[1] <= f[2]

\* C11: 0 <= levenshtein_distance(a, b) <= max(len(a), len(b)), so that
\* similarity_score(a, b) lies in [0, 1]; similarity_score(a, a) is 1.0 for a
\* non-empty a; similarity_score is 0.0 when either argument is empty, both
\* empty included
C11_SimilarityBounds ==
    s_pc = "scored" =>
        /\ 0 <= s_dist[1] /\ s_dist[1] <= Max2(Len(s_a), Len(s_b))
        /\ InUnitInterval(s_sim[1])
        /\ (s_a = s_b /\ s_a # <<>>) => s_sim[1] = <<1, 1>>
        /\ (s_a = <<>> \/ s_b = <<>>) => s_sim[1] = <<0, 1>>

\* C11 witness: two empty strings are scored
C11_Witness ==
    s_pc = "scored" /\ s_a = <<>> /\ s_b = <<>> /\ s_sim[1] = <<0, 1>>

\* the strings one insertion, deletion or substitution away from s
OneEdit(s) ==
    {SubSeq(s, 1, i) \o <<c>> \o SubSeq(s, i + 1, Len(s)) : i \in 0..Len(s), c \in SimAlphabet}
    \cup {SubSeq(s, 1, i - 1) \o SubSeq(s, i + 1, Len(s)) : i \in 1..Len(s)}
    \cup {[s EXCEPT ![i] = c] : i \in 1..Len(s), c \in SimAlphabet}

\* the strings at most k edits away from a string of S
RECURSIVE EditsWithin(_, _)
EditsWithin(S, k) ==
    IF k = 0 THEN S ELSE EditsWithin(S \cup UNION {OneEdit(s) : s \in S}, k - 1)

\* the least number of unit-cost edits that turn a into b
ClassicDistance(a, b) ==
    CHOOSE k \in 0..Max2(Len(a), Len(b)) :
        /\ b \in EditsWithin({a}, k)
        /\ k > 0 => b \notin EditsWithin({a}, k - 1)

\* C12: levenshtein_distance(a, b) is the classic Levenshtein distance: the
\* least number of unit-cost insertions, deletions and substitutions of one
\* character (no transposition) that turn a into b
C12_ClassicLevenshtein ==
    s_pc = "scored" => s_dist[1] = ClassicDistance(s_a, s_b)

\* C12 witness: a shorter string is scored against a longer one that is two
\* or more edits away
C12_Witness ==
    s_pc = "scored" /\ Len(s_a) < Len(s_b) /\ s_dist[1] >= 2

\* some rule of the chain matches the title
SomeRuleMatches(t) == \E r \in 1..RuleCount : RuleMatches(r, t, non_english_languages)

\* the first rule of the chain that matches the title
EarliestRule(t) ==
    CHOOSE r \in 1..RuleCount :
        /\ RuleMatches(r, t, non_english_languages)
        /\ \A q \in 1..(r - 1) : ~RuleMatches(q, t, non_english_languages)

\* C13: detect_non_english_title stops at the first rule that matches: the
\* verdict is non-English exactly when the reasons list is non-empty, the list
\* then holds one reason, the reason of the earliest matching rule; a title
\* with a CJK, Cyrillic, Arabic or Hebrew codepoint gets the script reason
\* whatever later rules it matches
C13_FirstRuleWins ==
    l_pc = "classified" =>
        /\ l_verdict <=> l_reasons # <<>>
        /\ l_verdict <=> SomeRuleMatches(l_title)
        /\ l_verdict =>
              l_reasons = <<RuleReason(EarliestRule(l_title), l_title, non_english_languages)>>
        /\ ScriptMatch(l_title) =>
              l_reasons = <<Reason("Non-English script detected (CJK/Cyrillic/Arabic/Hebrew)", <<>>)>>

\* C13 witness: a title with a CJK codepoint and a language edition in
\* parentheses is classified by the script rule
C13_Witness ==
    /\ l_pc = "classified"
    /\ ScriptMatch(l_title)
    /\ RuleMatches(4, l_title, non_english_languages)
    /\ Len(l_reasons) = 1

\* the number of positions of t whose character is in S
CountIn(t, S) == Cardinality({i \in 1..Len(t) : t[i] \in S})

\* the accent rule: c accented characters among t alphabetic ones with
\* c/t > 0.05, or a title shorter than 15 with c >= 2, or c >= 3
AccentThresholdsMet(title) ==
    LET c == CountIn(title, AccentedChars)
        t == Cardinality({i \in 1..Len(title) : IsAlpha(title[i])})
    IN  /\ c > 0 /\ t > 0
        /\ \/ c * 100 > 5 * t
           \/ Len(title) < 15 /\ c >= 2
           \/ c >= 3

\* a script, Hebrew, language-edition, Spanish or punctuation rule matches
EarlierRuleMatches(t) == \E r \in 1..9 : RuleMatches(r, t, non_english_languages)

\* C14: the classifier flags a title as non-English whenever no earlier rule
\* matched and its accented-character count c and alphabetic-character count t
\* satisfy c/t > 0.05, or (title length < 15 and c >= 2), or c >= 3
C14_AccentRule ==
    (l_pc = "classified" /\ ~EarlierRuleMatches(l_title) /\ AccentThresholdsMet(l_title))
        => l_verdict

\* C15: a title that matches no script, Hebrew, language-edition, Spanish or
\* punctuation rule and does not meet the accent thresholds is classified
\* English
C15_OtherwiseEnglish ==
    (l_pc = "classified" /\ ~EarlierRuleMatches(l_title) /\ ~AccentThresholdsMet(l_title))
        => ~l_verdict

\* the title has the character c
HasChar(t, c) == \E i \in 1..Len(t) : t[i] = c

\* C16: is_composite_volume is true exactly when the title contains '/' or
\* '|' or matches one of the range / boxed-set patterns.  So a title that
\* has '&' but no '/', no '|' and no range pattern is not composite, and the
\* verdict of a book is the verdict of the same book without its series
\* position: the series_position == 1 rule fires only on a title that has a
\* separator.
C16_CompositeVerdict ==
    c_pc = "matched" =>
        \A i \in 1..Len(c_catalog) :
            LET book == c_catalog[i]
                composite == i \in Range(c_composite_books)
            IN  /\ composite <=> (HasChar(book.title, "/") \/ HasChar(book.title, "|")
                                  \/ has_range(book.title))
                /\ composite <=> i \notin Range(c_standalone_books)
                /\ (/\ HasChar(book.title, "&")
                    /\ ~HasChar(book.title, "/") /\ ~HasChar(book.title, "|")
                    /\ ~has_range(book.title)) => ~composite
                /\ composite <=> is_composite_volume([book EXCEPT !.series_position = 0])
                /\ series_mismatch(book) => has_separator(book.title)

\* a book in first position whose title has '&' and no separator was
\* classified, and is not composite
C16_Witness ==
    /\ c_pc = "matched"
    /\ Len(c_catalog) = 1
    /\ c_catalog[1].series_position = 1
    /\ HasChar(c_catalog[1].title, "&")
    /\ ~HasChar(c_catalog[1].title, "/") /\ ~HasChar(c_catalog[1].title, "|")
    /\ c_composite_books = <<>>
    /\ c_standalone_books = <<1>>

\* the first separator of the list that occurs in the title (0: none does)
FirstSeparator(title) ==
    IF has_separator(title)
    THEN CHOOSE k \in 1..Len(separators) :
             /\ Contains(title, separators[k])
             /\ \A j \in 1..(k - 1) : ~Contains(title, separators[j])
    ELSE 0

\* the separators of the list that occur in the title and split it into
\* more than one part of more than 3 characters
SplittingSeparators(title) ==
    {k \in 1..Len(separators) :
        /\ Contains(title, separators[k])
        /\ Len(LongParts(SplitOn(title, separators[k]))) > 1}

\* C17, as stated: the components recorded for a composite book are the
\* parts, of more than 3 characters, of its title split on the first separator
\* of the list that occurs in it, and there are none when no separator occurs
C17_SplitOnFirstSeparator ==
    c_pc = "matched" =>
        \A m \in 1..Len(c_matches) :
            LET title == c_catalog[c_matches[m].composite_book].title
            IN  c_matches[m].component_titles =
                    IF FirstSeparator(title) = 0 THEN <<>>
                    ELSE LongParts(SplitOn(title, separators[FirstSeparator(title)]))

\* C17, amended: the components recorded for a composite book are the parts,
\* of more than 3 characters, of its title split on the first separator of the
\* list that occurs in it and leaves more than one such part; there are none
\* when no separator does, so none for a title without a separator (a pure
\* range title included) and none when only one part is long enough.  The
\* components are never a single title, and 'The Secret/The Revealing/The
\* Whatever' has exactly three.
C17_SplitOnFirstSplittingSeparator ==
    c_pc = "matched" =>
        \A m \in 1..Len(c_matches) :
            LET title == c_catalog[c_matches[m].composite_book].title
                parts == c_matches[m].component_titles
                S == SplittingSeparators(title)
            IN  /\ parts = IF S = {} THEN <<>>
                           ELSE LongParts(SplitOn(title,
                                    separators[CHOOSE k \in S : \A j \in S : k <= j]))
                /\ Len(parts) # 1
                /\ \A k \in 1..Len(parts) : Len(parts[k]) > 3 /\ Contains(title, parts[k])
                /\ ~has_separator(title) => parts = <<>>
                /\ title = <<"T", "h", "e", " ", "S", "e", "c", "r", "e", "t", "/", "T", "h", "e", " ", "R", "e", "v", "e", "a", "l", "i", "n", "g", "/", "T", "h", "e", " ", "W", "h", "a", "t", "e", "v", "e", "r">>
                       => parts = <<<<"T", "h", "e", " ", "S", "e", "c", "r", "e", "t">>, <<"T", "h", "e", " ", "R", "e", "v", "e", "a", "l", "i", "n", "g">>, <<"T", "h", "e", " ", "W", "h", "a", "t", "e", "v", "e", "r">>>>

\* a title was split on a separator that is not the first one occurring in it
C17_Witness ==
    /\ c_pc = "matched"
    /\ \E m \in 1..Len(c_matches) :
           LET title == c_catalog[c_matches[m].composite_book].title
           IN  /\ c_matches[m].component_titles # <<>>
               /\ c_matches[m].component_titles #
                      LongParts(SplitOn(title, separators[FirstSeparator(title)]))

\* the value of the signal a standalone title gives for a component title,
\* in tenths: 10 equal normalized titles, 8 equal base titles, 7 one title
\* within the other, 0 no signal
SignalValue(component_title, title) ==
    IF /\ comp_memo.norm[component_title] # <<>>
       /\ comp_memo.norm[component_title] = comp_memo.norm[title]
    THEN 10
    ELSE IF /\ comp_memo.base[component_title] # <<>>
            /\ Lower(comp_memo.base[component_title]) = Lower(comp_memo.base[title])
    THEN 8
    ELSE IF \/ Contains(Lower(title), Lower(component_title))
            \/ Contains(Lower(component_title), Lower(title))
    THEN 7
    ELSE 0

\* the records of matches for the book at index i
RecordsOf(i) == {m \in 1..Len(c_matches) : c_matches[m].composite_book = i}

\* C18: every book classified composite has exactly one match record, and a
\* book that is not has none; a standalone offered for a component is not
\* composite and gives a signal for that component; the recorded score is
\* the highest signal value that any standalone of the catalog gives for the
\* component; confidence is low when no component is matched, high when all
\* are, medium otherwise.
C18_MatchRecords ==
    c_pc = "matched" =>
        /\ \A i \in 1..Len(c_catalog) :
               Cardinality(RecordsOf(i)) = IF i \in Range(c_composite_books) THEN 1 ELSE 0
        /\ \A m \in 1..Len(c_matches) :
               LET found == c_matches[m].standalone_books
                   components == c_matches[m].component_titles
               IN  /\ \A e \in 1..Len(found) :
                          /\ found[e].standalone \in 1..Len(c_catalog)
                          /\ found[e].standalone \notin Range(c_composite_books)
                          /\ ~is_composite_volume(c_catalog[found[e].standalone])
                          /\ SignalValue(found[e].component_title,
                                         c_catalog[found[e].standalone].title) > 0
                          /\ \A s \in 1..Len(c_catalog) :
                                 ~is_composite_volume(c_catalog[s]) =>
                                     SignalValue(found[e].component_title, c_catalog[s].title)
                                         <= found[e].match_score
                          /\ \E s \in 1..Len(c_catalog) :
                                 /\ ~is_composite_volume(c_catalog[s])
                                 /\ SignalValue(found[e].component_title, c_catalog[s].title)
                                        = found[e].match_score
                   /\ Len(found) <= Len(components)
                   /\ c_matches[m].confidence =
                          IF Len(found) = 0 THEN "low"
                          ELSE IF Len(found) = Len(components) THEN "high"
                          ELSE "medium"

\* a composite of two components found both as standalones, one by its
\* normalized title and one by its base title, next to a standalone that
\* only contains a component
C18_Witness ==
    /\ c_pc = "matched"
    /\ \E m \in 1..Len(c_matches) :
           /\ c_matches[m].confidence = "high"
           /\ Len(c_matches[m].standalone_books) = 2
           /\ c_matches[m].standalone_books[1].match_score = 10
           /\ c_matches[m].standalone_books[2].match_score = 8

\* the raw series names of the books under a series-normalized key
NamesUnder(books, key) ==
    {books[i].series_name :
        i \in {j \in 1..Len(books) : series_memo[books[j].series_name] = key}}

\* the series-normalized keys of a list of books
SeriesKeys(books) ==
    {series_memo[books[i].series_name] : i \in 1..Len(books)} \ {<<>>}

\* name x does not come after name y in the order of preference
PreferredOrEqual(x, y) ==
    LET sx == Contains(Tabulated(Lower(x)), <<"s", "e", "r", "i", "e", "s">>)
        sy == Contains(Tabulated(Lower(y)), <<"s", "e", "r", "i", "e", "s">>)
        lx == IsLowerCase(x[1])
        ly == IsLowerCase(y[1])
    IN  \/ sx /\ ~sy
        \/ sx = sy /\ ~lx /\ ly
        \/ sx = sy /\ lx = ly /\ Len(x) <= Len(y)

\* C19: a consolidation is reported for a series-normalized key exactly when
\* the books under the key carry more than one distinct raw series name, once
\* for each such key; its canonical name is one of those raw names, and no
\* other of them comes before it in the order: with 'series' before without,
\* then first character not lower-case before lower-case, then shorter first.
C19_Consolidations ==
    r_pc \in {"once", "twice"} =>
        /\ {r_first[g].normalized_name : g \in 1..Len(r_first)}
               = {key \in SeriesKeys(r_books) : Cardinality(NamesUnder(r_books, key)) > 1}
        /\ \A g, h \in 1..Len(r_first) :
               g # h => r_first[g].normalized_name # r_first[h].normalized_name
        /\ \A g \in 1..Len(r_first) :
               LET names == NamesUnder(r_books, r_first[g].normalized_name)
               IN  /\ r_first[g].canonical_name \in names
                   /\ \A y \in names : PreferredOrEqual(r_first[g].canonical_name, y)

\* a key with three raw names was consolidated
C19_Witness ==
    /\ r_pc = "once"
    /\ \E g \in 1..Len(r_first) :
           Cardinality(NamesUnder(r_books, r_first[g].normalized_name)) = 3

\* C20: two calls of find_series_consolidations on the same books, in any
\* order, give the same canonical name for every consolidation group
C20_SameCanonicalName ==
    r_pc = "twice" =>
        \A g \in 1..Len(r_first), h \in 1..Len(r_second) :
            r_first[g].normalized_name = r_second[h].normalized_name
                => r_first[g].canonical_name = r_second[h].canonical_name

\* a known children's series name is found in s
HoldsSeriesName(s) == FirstPattern(childrens_series_keywords, s) # 0

\* the verdict rests on a children's series name
OnAccountOfSeries ==
    /\ k_verdict
    /\ k_reasons[1].text \in {"Children's series name", "Children's series in title"}

\* C21: is_childrens_book is positive on account of a known children's
\* series name exactly when that name is found in the series name of the
\* book: a book whose series name holds such a name is positive even if its
\* title does not, and a book of adult categories whose only signal is a
\* series keyword in the title is negative
C21_SeriesNameDecides ==
    k_pc = "classified" =>
        /\ HoldsSeriesName(k_book.series_name) => k_verdict
        /\ OnAccountOfSeries => HoldsSeriesName(k_book.series_name)
        /\ (/\ k_book.series_name = <<>>
            /\ k_book.categories = <<"F", "i", "c", "t", "i", "o", "n", ",", " ", "R", "o", "m", "a", "n", "c", "e">>
            /\ k_book.description = <<>>
            /\ FirstPattern(childrens_title_patterns, k_book.title) = 0
            /\ FirstPattern(age_range_patterns, k_book.title) = 0) => ~k_verdict

\* the text of the first parenthetical span of t, a span being an opening
\* parenthesis, some text without a closing parenthesis, and a closing
\* parenthesis (<<>>: t has no such span)
FirstSpan(t) ==
    LET spans == {s \in (1..Len(t)) \X (1..Len(t)) :
                     /\ s[1] + 1 < s[2]
                     /\ t[s[1]] = "(" /\ t[s[2]] = ")"
                     /\ \A k \in (s[1] + 1)..(s[2] - 1) : t[k] # ")"}
    IN  IF spans = {} THEN <<>>
        ELSE LET first == CHOOSE s \in spans : \A o \in spans : s[1] <= o[1]
             IN  SubSeq(t, first[1] + 1, first[2] - 1)

\* c reads as '<text> [Book] #?<digits>' with the text before position k and
\* the digits at d..e
ReadsAs(c, k, d, e) ==
    /\ 1 < k /\ k <= d /\ d <= e /\ e <= Len(c)
    /\ \A m \in d..e : IsDigit(c[m])
    /\ e = Len(c) \/ ~IsDigit(c[e + 1])
    /\ \E a \in k..d :
           /\ \/ a = k
              \/ /\ a - 5 >= k
                 /\ \A m \in k..(a - 5) : c[m] = " "
                 /\ Lower(SubSeq(c, a - 4, a - 1)) = <<"b", "o", "o", "k">>
           /\ \A m \in a..(d - 1) : c[m] \in {" ", "#"}
           /\ Cardinality({m \in a..(d - 1) : c[m] = "#"}) <= 1

\* the name a text gives: trimmed, without a trailing 'Book'
NameOf(text) ==
    LET trimmed == Strip(text)
        n == Len(trimmed)
    IN  IF n >= 5 /\ Lower(SubSeq(trimmed, n - 3, n)) = <<"b", "o", "o", "k">> /\ trimmed[n - 4] = " "
        THEN Strip(SubSeq(trimmed, 1, n - 4))
        ELSE trimmed

\* C22: extract_series_from_title looks only at the first parenthetical
\* span of the title: it returns (name, n) only when that span reads as
\* '<text> [Book] #?<digits>' and the trimmed name, without a trailing
\* 'Book', is longer than 2 characters, and (None, None) in every other
\* case, also when only a later parenthetical holds the series;
\* 'What Comes My Way (Brookstone Brides Book #3)' gives
\* ('Brookstone Brides', 3)
C22_FirstSpanOnly ==
    "extract_series_from_title" \in e_done =>
        LET c == FirstSpan(e_title)
        IN  /\ e_series # NoSeries =>
                /\ Len(e_series[1]) > 2
                /\ \E k, d, e \in 1..Len(c) :
                       /\ ReadsAs(c, k, d, e)
                       /\ e_series[1] = NameOf(SubSeq(c, 1, k - 1))
                       /\ e_series[2] = ToInt(SubSeq(c, d, e))
            /\ e_title = <<"W", "h", "a", "t", " ", "C", "o", "m", "e", "s", " ", "M", "y", " ", "W", "a", "y", " ", "(", "B", "r", "o", "o", "k", "s", "t", "o", "n", "e", " ", "B", "r", "i", "d", "e", "s", " ", "B", "o", "o", "k", " ", "#", "3", ")">>
                   => e_series = <<<<"B", "r", "o", "o", "k", "s", "t", "o", "n", "e", " ", "B", "r", "i", "d", "e", "s">>, 3>>

\* C22 witness: the first span is not a series and a later one is
C22_Witness ==
    /\ "extract_series_from_title" \in e_done
    /\ e_title = <<"(", "A", " ", "N", "o", "v", "e", "l", ")", " ", "(", "D", "u", "n", "e", " ", "#", "2", ")">>
    /\ e_series = NoSeries

\* C23: the core functions are total on the empty title:
\* normalize_title_advanced('') and extract_base_title('') give '',
\* extract_series_from_title('') gives (None, None),
\* detect_non_english_title('') gives (False, []), and similarity_score
\* with an empty argument gives 0.0
C23_TotalOnEmptyTitle ==
    /\ ("normalize_title_advanced" \in e_done /\ e_title = <<>>) => e_norm = <<>>
    /\ ("extract_base_title" \in e_done /\ e_title = <<>>) => e_base = <<>>
    /\ ("extract_series_from_title" \in e_done /\ e_title = <<>>) => e_series = NoSeries
    /\ ("detect_non_english_title" \in e_done /\ e_title = <<>>) => e_lang = <<FALSE, <<>>>>
    /\ ("similarity_score" \in e_done /\ (e_title = <<>> \/ e_other = <<>>))
           => e_sim = <<<<0, 1>>, <<0, 1>>>>

\* C23 witness: all five functions are applied to the empty title
C23_Witness ==
    /\ e_title = <<>>
    /\ e_other = <<>>
    /\ "similarity_score" \in e_done
    /\ e_lang = <<FALSE, <<>>>>
    /\ e_series = NoSeries

\* C24: when execute_deduplication, not as a dry run, applies all the
\* actions built from the report of one author, no catalog book that is the
\* keep_id of an action is deleted by another action: every group keeps its
\* survivor
C24_KeepSurvives ==
    (pc = "executed" /\ ~x_dry_run /\ x_failing = {}) =>
        \A g \in 1..Len(report) : report[g].keep \notin x_deleted

\* the dedup title of every row of a table
DedupTitles(rows) == Tabulated([b \in rows |-> normalize_title_for_dedup(b.title)])

\* the rows of a table that share author and dedup title with b
DuplicateSet(rows, titles, b) ==
    {o \in rows : o.author_id = b.author_id /\ titles[o] = titles[b]}

\* the tables after call k
CatalogAfter(k) == IF k = Len(d_log) THEN d_catalog ELSE d_log[k + 1].catalog

BooksAfter(k) == IF k = Len(d_log) THEN d_books ELSE d_log[k + 1].books

Committed(k) == ~d_log[k].dry_run /\ ~d_log[k].commit_raises

\* C25: after a remove_duplicate_titles over all authors that is not a dry
\* run and whose commit succeeds, no two remaining catalog books of an
\* author share a dedup title that is not empty, the survivor of each former
\* duplicate set is its member of highest completeness score (lowest id on
\* ties), and a second call right after finds no catalog duplicates
C25_OneSurvivorPerTitle ==
    \A k \in 1..Len(d_log) :
        Committed(k) =>
            LET before == d_log[k].catalog
                titles == DedupTitles(before)
            IN  /\ \A a, b \in CatalogAfter(k) :
                       (a # b /\ a.author_id = b.author_id /\ titles[a] # <<>>)
                           => titles[a] # titles[b]
                /\ \A b \in before :
                       titles[b] # <<>> =>
                           \E s \in DuplicateSet(before, titles, b) :
                               /\ DuplicateSet(before, titles, b) \cap CatalogAfter(k) = {s}
                               /\ \A o \in DuplicateSet(before, titles, b) :
                                      \/ completeness_score(o) < completeness_score(s)
                                      \/ completeness_score(o) = completeness_score(s) /\ s.id <= o.id
                /\ k < Len(d_log) => d_log[k + 1].stats.catalog_duplicates_found = 0

\* C25 witness: a committed call removed a duplicate that ties with the
\* survivor on the score, and a second call followed
C25_Witness ==
    /\ Len(d_log) = 2
    /\ Committed(1)
    /\ d_log[1].stats.catalog_duplicates_removed >= 1
    /\ \E a, b \in d_log[1].catalog :
           /\ a # b /\ a.author_id = b.author_id
           /\ completeness_score(a) = completeness_score(b)
           /\ a \notin d_catalog /\ b \in d_catalog

\* the sets of two or more catalog rows that share a key which is not empty
CatalogSets(rows) ==
    LET titles == DedupTitles(rows)
    IN  {DuplicateSet(rows, titles, b) : b \in {c \in rows : titles[c] # <<>>}}
            \ {{b} : b \in rows}

\* the sets of two or more book rows that share a key, both parts not empty
BookSets(rows) ==
    LET keys == Tabulated([b \in rows |-> BookKey(b)])
    IN  {{o \in rows : keys[o] = keys[b]} :
            b \in {c \in rows : keys[c][1] # <<>> /\ keys[c][2] # <<>>}}
            \ {{b} : b \in rows}

\* C26: if the commit of a remove_duplicate_titles that is not a dry run
\* raises, the session is rolled back, so that no catalog book and no book
\* is deleted, and the stats report 0 removed of both kinds and an error
\* entry, while the found counts are still reported
C26_FailedCommitRollsBack ==
    \A k \in 1..Len(d_log) :
        d_log[k].commit_raises =>
            /\ CatalogAfter(k) = d_log[k].catalog
            /\ BooksAfter(k) = d_log[k].books
            /\ d_log[k].stats.catalog_duplicates_removed = 0
            /\ d_log[k].stats.book_duplicates_removed = 0
            /\ d_log[k].stats.error
            /\ d_log[k].stats.catalog_duplicates_found = Cardinality(CatalogSets(d_log[k].catalog))
            /\ d_log[k].stats.book_duplicates_found = Cardinality(BookSets(d_log[k].books))

\* C26 witness: the commit raises on a database with duplicates of both kinds
C26_Witness ==
    /\ Len(d_log) >= 1
    /\ d_log[1].commit_raises
    /\ d_log[1].stats.catalog_duplicates_found > 0
    /\ d_log[1].stats.book_duplicates_found > 0

\* the running call reached the scan: not a dry run, the test connection passed
LiveRun == b_run > 0 /\ ~b_args.dry_run /\ ~b_args.locked

\* the total size of the batches committed among the first k attempts
RECURSIVE CommittedSize(_)
CommittedSize(k) ==
    IF k = 0 THEN 0
    ELSE CommittedSize(k - 1)
         + (IF b_attempts[k].outcome = "ok" THEN Len(b_attempts[k].batch) ELSE 0)

\* the table the call found with the series of the updates of ids written in
SeriesWritten(ids) ==
    [i \in 1..Len(b_args.catalog) |->
        IF i \in ids THEN extract_series_from_title(b_args.catalog[i].title)[1]
        ELSE b_args.catalog[i].series_name]

\* what the commit loop has done so far is in order
BatchLoopInOrder ==
    LiveRun =>
        /\ \A k \in 1..Len(b_attempts) :
               LET a == b_attempts[k]
               IN  /\ a.batch_start % BatchSize = 0
                   /\ a.batch_start < Len(b_pending)
                   /\ a.batch = [j \in 1..Len(a.batch) |-> b_pending[a.batch_start + j]]
                   /\ Len(a.batch) = (IF Len(b_pending) - a.batch_start < BatchSize
                                      THEN Len(b_pending) - a.batch_start ELSE BatchSize)
                   /\ a.batch_start = (IF k = 1 THEN 0
                                       ELSE IF b_attempts[k - 1].outcome = "ok"
                                            THEN b_attempts[k - 1].batch_start + BatchSize
                                            ELSE b_attempts[k - 1].batch_start)
                   /\ k > 1 => b_attempts[k - 1].outcome \in {"ok", "locked"}
                   /\ Cardinality({o \in 1..Len(b_attempts) :
                                       b_attempts[o].batch_start = a.batch_start}) <= 5
        /\ b_committed = CommittedSize(Len(b_attempts))
        /\ [i \in 1..Len(b_catalog) |-> b_catalog[i].series_name] = SeriesWritten(UpdatedIds)

\* C27: process_catalog_books (not a dry run) commits the pending updates in
\* batches of batch_size in list order; a batch whose commit finds the
\* database locked is rolled back and tried again, five attempts at most for
\* a batch, so that the loop always ends; after a batch that failed no later
\* batch is attempted; the committed counter is the total size of the
\* batches whose commit succeeded
C27_BatchesInOrderAndLoopEnds ==
    /\ []BatchLoopInOrder
    /\ (b_pc = "commit") ~> (b_pc # "commit")

\* C27 witness: the first batch is committed, the second finds the database
\* locked five times and the loop is left with the first batch only
C27_Witness ==
    /\ LiveRun
    /\ b_pc = "closed"
    /\ Len(b_attempts) = 6
    /\ b_attempts[1].outcome = "ok"
    /\ \A k \in 2..6 : b_attempts[k].outcome = "locked"
    /\ b_committed = BatchSize
    /\ Len(b_pending) > BatchSize

\* what holds of every run: only books without series_name are selected, a
\* book that is updated has a series_name, and no book is updated that a
\* run before has updated
RunsOnlyOnWhatIsLeft ==
    /\ \A j \in 1..Len(b_pending) : b_args.catalog[b_pending[j].book].series_name = <<>>
    /\ \A i \in UpdatedIds : b_catalog[i].series_name # <<>>
    /\ b_prev # <<>> => UpdatedIds \cap b_prev.updated = {}

\* C28 as stated: a run after a run that committed every batch of its
\* updates (one batch at least) updates no book, whatever the limit and
\* offset of the runs
C28_SecondRunUpdatesNothing ==
    LiveRun =>
        /\ RunsOnlyOnWhatIsLeft
        /\ (b_prev # <<>> /\ b_prev.complete /\ b_prev.committed > 0) => UpdatedIds = {}

\* C28: process_catalog_books selects only catalog books whose series_name
\* is null or empty and every book it updates ends with a series_name that
\* is not empty; a run after a run without limit and offset in which every
\* batch was committed updates no book, and a run after a partial failure
\* updates only books whose batch was not committed
C28_Resumable ==
    LiveRun =>
        /\ RunsOnlyOnWhatIsLeft
        /\ (b_prev # <<>> /\ b_prev.complete /\ b_prev.limit = 0 /\ b_prev.offset = 0)
               => (b_pending = <<>> /\ UpdatedIds = {})

\* C28 witness: a run after a partial failure commits the batch that was left
C28_Witness ==
    /\ LiveRun
    /\ b_prev # <<>>
    /\ b_prev.updated # {}
    /\ ~b_prev.complete
    /\ UpdatedIds # {}
    /\ b_pc = "closed"

NonKeepMembers ==
    UNION {Range(all_groups[g].members) \ {report[h].keep} :
               <<g, h>> \in {p \in (1..Len(all_groups)) \X (1..Len(report)) :
                                 /\ all_groups[p[1]].gid = report[p[2]].gid
                                 /\ all_groups[p[1]].kind = report[p[2]].kind
                                 /\ Len(all_groups[p[1]].members) >= 2}}

\* C29: with dry_run remove_duplicate_titles, execute_deduplication,
\* execute_consolidation and check_authors_with_many_recommendations delete
\* no record and change no field of a record; the last of them sets
\* duplicate on a recommendation only when dry_run is False and auto_flag is
\* True, and then only on members of a duplicate group that are not its keep
C29_DryRunChangesNothing ==
    /\ \A k \in 1..Len(d_log) :
           d_log[k].dry_run =>
               CatalogAfter(k) = d_log[k].catalog /\ BooksAfter(k) = d_log[k].books
    /\ (pc = "executed" /\ x_dry_run) => (x_deleted = {} /\ x_flagged = {})
    /\ (r_pc \in {"executed", "rechecked"} /\ r_dry_run) => r_after = r_books
    /\ pc = "flagged" =>
           /\ x_deleted = {}
           /\ x_dry_run => x_flagged = {}
           /\ x_flagged # {} => (~x_dry_run /\ x_auto_flag)
           /\ x_flagged \subseteq NonKeepMembers

\* C29 witness: a dry run of execute_consolidation on a consolidation with
\* books to rename
C29_Witness ==
    /\ r_pc = "executed"
    /\ r_dry_run
    /\ Len(r_counts) > 0
    /\ r_counts[1] > 0

====
